---- MODULE Spec2Model ----
(***************************************************************************)
(* FreeDView tester: the three-phase pipeline of src/src/main.py           *)
(* (localize, render, compare), the worker pools of freeDViewRunner.py and *)
(* renderCompare.py, and the directory discovery of jsonLocalizer.py.      *)
(***************************************************************************)
EXTENDS Integers, Sequences, FiniteSets, TLC

(* ------------------------------------------------------------------------ *)
(* Bounds of the model                                                      *)
(* ------------------------------------------------------------------------ *)

\* frame folders found below the test root
MaxFrames == 2
\* worker threads of a pool (max_workers)
MaxWorkers == 2
\* frame folders of a run whose render tasks are followed step by step on disk
MaxRenderFrames == 1

(* ------------------------------------------------------------------------ *)
(* State of the pipeline (main.run_all and the two worker pools)            *)
(* ------------------------------------------------------------------------ *)

VARIABLES
    \* main thread: position in run_all / do_it / _process_from_ini
    pc,
    \* what the INI file and the disk give this run (read-only inputs)
    ini,
    \* FreeDViewRunner and its pool
    submitted,            \* number of render tasks handed to executor.submit
    rpc,                  \* position of each render task's thread
    progress_lock,        \* holder of FreeDViewRunner._progress_lock (0: free)
    render_count,         \* self._render_count
    successful_renders,   \* self._successful_renders
    failed_renders,       \* self._failed_renders
    loaded,               \* the value a task's "+= 1" has read and not yet stored
    count_reads,          \* count_reads[v]: how many tasks got current_count = v
    fut,                  \* each future: "pending", its result "True" or
                          \* "False", or "yielded" once as_completed gave it
                          \* to the loop body
    \* RenderCompare and its pool
    csubmitted,           \* number of comparison tasks handed to executor.submit
    cpc,                  \* position of each comparison task's thread
    compare_lock,         \* holder of RenderCompare._progress_lock (0: free, -1: main)
    processed_folders,    \* self._processed_folders
    cfut,                 \* each comparison future, as fut
    \* the render tasks on disk
    fault,                \* what ended each finished render task ("none": nothing yet)
    disk,                 \* state of each output directory
    launched,             \* state of a task's output directory when Popen started
                          \* its renderer ("none": no renderer running)
    found_dir,            \* what a task found at its output path before it
                          \* replaced the directory ("none": not there yet)
    \* JsonLocalizer.is_event
    event_name_set_test,  \* the pattern, a sequence of characters
    test_path,            \* the path tested, a sequence of names
    is_event_result,      \* what is_event returned ("none": not called yet)
    \* JsonLocalizer.get_json_files
    tree,                 \* the event directories below the root, as paths
    frame_folder,         \* the frame folder each event holds in its set
    dpc,                  \* position in get_json_files
    unvisited,            \* directories of the root the first loop has not reached
    event_path_list,      \* event_path_list
    collect_i,            \* index of the second loop in event_path_list
    frame_name_list,      \* frame_name_list
    folder_frame_list,    \* folder_frame_list
    \* JsonLocalizer.get_json_files with create_folders enabled
    extra_dirs,           \* the placeholder directories created so far
    sport_folder_index,   \* self.sport_folder_index
    stadium_folder_index, \* self.stadium_folder_index
    run,                  \* which call of get_json_files is running (0: none)
    first_dirs,           \* the placeholder directories the first call left
    \* RenderCompare._compare_single_folder followed on one frame folder
    job,                  \* the task and what the results tree holds for it
    jpc,                  \* position in _compare_single_folder / render_compare_do_it
    skip_log,             \* level of the record logged when the folder is skipped
    start_frame,          \* start_frame of render_compare_do_it (None: not set)
    frames_read,          \* what cv2.imread gave for each pair the loop reached
    result_ssim_list,     \* result_ssim_list
    results_folder,       \* the directories made at and below <frame>/results
    images_written,       \* the images written below results: <<folder, name>>
    report,               \* compareResult.xml: its state and, once written, content
    xml_raised,           \* what write_to_xml_file raised ("none": nothing)
    job_result,           \* what _compare_single_folder returned ("none": running)
    \* JsonLocalizer.duplicate_and_modify_json_files
    json_file_list,       \* json_file_list: the descriptor paths of the catalog
    json_folders,         \* per frame, whether testMe.json can be written in its folder
    files,                \* the two files of each frame's Render/Json folder
    files_before,         \* the files when the function was called
    lpc,                  \* position in duplicate_and_modify_json_files
    loop_i,               \* index of its loop in json_file_list
    \* the renaming loop at the end of FreeDViewRunner.run_freedview
    rename_dir,           \* output_path, a string
    dir_files,            \* the entries of the output directory, by name
    listing,              \* the entries iterdir listed that the loop has not reached
    npc,                  \* position in the renaming loop
    \* renderCompare.mean_squared_error
    image_a,              \* image_a
    image_b,              \* image_b
    mse,                  \* the results of the calls made on them (<<>>: none yet)
    \* getDataIni.getDataINI
    ini_file,             \* the file at file_path
    file_check,           \* file_check
    data_list,            \* what the call returned (<<>>: not called yet)
    \* what the phases of run_all have done beside their pools
    localized,            \* JsonLocalizer.do_it reached get_json_files and
                          \* duplicate_and_modify_json_files
    progress_logged,      \* the "Folder progress" lines logged: folder and count
    \* the task list of FreeDViewRunner.do_it and the tasks' output paths
    layout,               \* what the run found: separator, frame folders, versions
    render_tasks,         \* render_tasks
    output_paths,         \* output_path of each task that computed it (<<>>: not yet)
    tpc                   \* "idle", "build" (the nested loops), "run" (the pool)

rvars == <<submitted, rpc, progress_lock, render_count, successful_renders,
           failed_renders, loaded, count_reads, fut>>

cvars == <<csubmitted, cpc, compare_lock, processed_folders, cfut>>

fvars == <<fault, disk, launched, found_dir>>

pvars == <<pc, ini, rvars, cvars, fvars>>

evars == <<event_name_set_test, test_path, is_event_result>>

dvars == <<tree, frame_folder, dpc, unvisited, event_path_list, collect_i,
           frame_name_list, folder_frame_list>>

xvars == <<extra_dirs, sport_folder_index, stadium_folder_index, run, first_dirs>>

jvars == <<job, jpc, skip_log, start_frame, frames_read, result_ssim_list,
           results_folder, images_written, report, xml_raised, job_result>>

\* the variables of the functions followed on their own after get_json_files
lvars == <<json_file_list, json_folders, files, files_before, lpc, loop_i>>

nvars == <<rename_dir, dir_files, listing, npc>>

mvars == <<image_a, image_b, mse>>

ivars == <<ini_file, file_check, data_list>>

qvars == <<localized, progress_logged>>

tvars == <<layout, render_tasks, output_paths, tpc>>

zvars == <<jvars, lvars, nvars, mvars, ivars, qvars, tvars>>

\* the variables of the functions followed on their own
ovars == <<xvars, zvars>>

(* ------------------------------------------------------------------------ *)
(* Inputs of a pipeline run                                                 *)
(* ------------------------------------------------------------------------ *)

\* The required key getDataINI returns ['error'] for, if any.
MissingKeys == {"none", "setTestPath", "freedviewPath", "freedviewVer"}

\* VERSION_SEPARATOR = "_VS_"
VERSION_SEPARATOR == <<"_", "V", "S", "_">>

\* The values of freedviewVer tried, as sequences of characters: "v1",
\* "v1_VS_v2", "v1_VS_v2_VS_v3"
VersionStrings ==
    { <<"v", "1">>,
      <<"v", "1">> \o VERSION_SEPARATOR \o <<"v", "2">>,
      <<"v", "1">> \o VERSION_SEPARATOR \o <<"v", "2">>
          \o VERSION_SEPARATOR \o <<"v", "3">> }

\* where sep occurs in str
occurrences(str, sep) ==
    {i \in 1 .. Len(str) - Len(sep) + 1 : SubSeq(str, i, i + Len(sep) - 1) = sep}

RECURSIVE str_split(_, _)
\* str.split(sep): the parts between the occurrences of sep, taken from the
\* left
str_split(str, sep) ==
    IF occurrences(str, sep) = {} THEN <<str>>
    ELSE LET i == CHOOSE i \in occurrences(str, sep) :
                     \A j \in occurrences(str, sep) : i <= j
         IN <<SubSeq(str, 1, i - 1)>>
                \o str_split(SubSeq(str, i + Len(sep), Len(str)), sep)

\* freedview_split = freedview_ver.split(VERSION_SEPARATOR)
freedview_split == str_split(ini.freedview_ver, VERSION_SEPARATOR)

\* A format check that takes the first two of several parts
valid_format_lenient(parts) == Len(parts) >= 2

\* the check "len(freedview_split) != 2" passes
valid_format(parts) == Len(parts) = 2

\* freedview_orig, freedview_test = freedview_split
freedview_orig == freedview_split[1]

freedview_test == freedview_split[2]

\* _get_freedview_versions appends the directories named freedview_orig and
\* freedview_test: none, one or both are found.
VersionCounts == {0, 1, 2}

Inputs ==
    [missing : MissingKeys, freedview_ver : VersionStrings, nVer : VersionCounts,
     nFrames : 0 .. MaxFrames, W : 1 .. MaxWorkers]

\* total_renders = len(freedview_ver_path_list) * len(json_file_list)
total_renders == ini.nVer * ini.nFrames

\* render_tasks, numbered in the order the two nested loops append them
Tasks == 1 .. total_renders

\* total_folders = len(folder_frame_list); comparison_tasks in list order
total_folders == ini.nFrames

Folders == 1 .. total_folders

(* ------------------------------------------------------------------------ *)
(* Phase 1: JsonLocalizer.do_it, as run_all calls it                        *)
(* ------------------------------------------------------------------------ *)

\* The early return of do_it: setTestPath reads 'error'.
LocalizeAborts == ini.missing = "setTestPath"

\* do_it returns at its check of setTestPath, or goes on to get_json_files
\* (called with create_folders = False) and duplicate_and_modify_json_files,
\* the one place of the phase where directories are made and files written.
localize ==
    /\ pc = "localize"
    /\ pc' = "render"
    /\ localized' = ~LocalizeAborts
    /\ UNCHANGED <<ini, rvars, cvars, fvars, evars, dvars, xvars, jvars, lvars,
                   nvars, mvars, ivars, tvars, progress_logged>>

(* ------------------------------------------------------------------------ *)
(* Phase 2: FreeDViewRunner.do_it (main thread)                             *)
(* ------------------------------------------------------------------------ *)

\* do_it with freedviewPath left out of its check of the keys
RenderAborts_PathUnchecked ==
    \/ ini.missing \in {"setTestPath", "freedviewVer"}
    \/ ini.nFrames = 0
    \/ ~valid_format(freedview_split)
    \/ ini.nVer = 0

\* The early returns of do_it: a required key reads 'error', no descriptor was
\* found, the version string does not split in two, no version directory found.
RenderAborts ==
    \/ ini.missing # "none"
    \/ ini.nFrames = 0
    \/ ~valid_format(freedview_split)
    \/ ini.nVer = 0

\* do_it up to the pool: the configuration, the catalog, the versions, the
\* counters reset and the task list built.
do_it_begin ==
    /\ pc = "render"
    /\ IF RenderAborts
         THEN /\ pc' = "render_returned"
              /\ UNCHANGED <<render_count, successful_renders, failed_renders>>
         ELSE /\ pc' = "render_submit"
              /\ render_count' = 0
              /\ successful_renders' = 0
              /\ failed_renders' = 0
    /\ UNCHANGED <<ini, submitted, rpc, progress_lock, loaded, count_reads,
                   fut, cvars, fvars, evars, dvars, ovars>>

\* executor.submit(self._render_single_task, task) for the next task of the
\* list; after the last one the main thread enters the as_completed loop
submit ==
    /\ pc = "render_submit"
    /\ IF submitted < total_renders
         THEN /\ submitted' = submitted + 1
              /\ rpc' = [rpc EXCEPT ![submitted + 1] = "queued"]
              /\ pc' = pc
         ELSE /\ pc' = "render_collect"
              /\ UNCHANGED <<submitted, rpc>>
    /\ UNCHANGED <<ini, progress_lock, render_count, successful_renders,
                   failed_renders, loaded, count_reads, fut, cvars, fvars, evars, dvars, ovars>>

\* A loop body that counts the True results only
CountResult_DropFailed(r, succ, failed) ==
    IF r = "True" THEN <<succ + 1, failed>> ELSE <<succ, failed>>

\* The body of the as_completed loop for one future: True counts as a
\* successful render, False (or an exception out of result()) as a failed one.
CountResult(r, succ, failed) ==
    IF r = "True" THEN <<succ + 1, failed>> ELSE <<succ, failed + 1>>

\* The futures as_completed has yielded so far
collected == {k \in Tasks : fut[k] = "yielded"}

\* as_completed yields a future once it is done, each future once; the loop
\* body is the only reader of its result
as_completed(k) ==
    /\ pc = "render_collect"
    /\ fut[k] \in {"True", "False"}
    /\ LET c == CountResult(fut[k], successful_renders, failed_renders)
       IN /\ successful_renders' = c[1]
          /\ failed_renders' = c[2]
    /\ fut' = [fut EXCEPT ![k] = "yielded"]
    /\ fault' = [fault EXCEPT ![k] = "none"]
    /\ UNCHANGED <<pc, ini, submitted, rpc, progress_lock, render_count,
                   loaded, count_reads, cvars, disk, launched, found_dir, evars, dvars, ovars>>

\* A loop left at the first future yielded, the executor not joined
PoolDrained_FirstCompleted == collected # {}

\* The as_completed loop ends when every future was yielded; leaving the
\* "with ThreadPoolExecutor" block joins the worker threads.
PoolDrained == collected = Tasks /\ \A k \in Tasks : rpc[k] = "done"

do_it_end ==
    /\ pc = "render_collect"
    /\ PoolDrained
    /\ pc' = "render_returned"
    /\ UNCHANGED <<ini, rvars, cvars, fvars, evars, dvars, ovars>>

(* ------------------------------------------------------------------------ *)
(* Phase 2: FreeDViewRunner._render_single_task (worker threads)            *)
(* ------------------------------------------------------------------------ *)

Running == {k \in Tasks : rpc[k] \notin {"unsubmitted", "queued", "done"}}

\* A thread of the pool takes the oldest queued task when fewer than
\* max_workers tasks are running.
start(k) ==
    /\ rpc[k] = "queued"
    /\ \A j \in Tasks : j < k => rpc[j] # "queued"
    /\ Cardinality(Running) < ini.W
    /\ rpc' = [rpc EXCEPT ![k] = "acquire"]
    /\ UNCHANGED <<pc, ini, submitted, progress_lock, render_count,
                   successful_renders, failed_renders, loaded, count_reads,
                   fut, cvars, fvars, evars, dvars, ovars>>

\* A counter block entered without waiting for the lock
LockAvailable_NoLock == TRUE

\* "with self._progress_lock:" blocks until the lock is free
LockAvailable == progress_lock = 0

acquire(k) ==
    /\ rpc[k] = "acquire"
    /\ LockAvailable
    /\ progress_lock' = k
    /\ rpc' = [rpc EXCEPT ![k] = "load"]
    /\ UNCHANGED <<pc, ini, submitted, render_count, successful_renders,
                   failed_renders, loaded, count_reads, fut, cvars, fvars, evars, dvars, ovars>>

\* self._render_count += 1 reads the attribute ...
load(k) ==
    /\ rpc[k] = "load"
    /\ loaded' = [loaded EXCEPT ![k] = render_count]
    /\ rpc' = [rpc EXCEPT ![k] = "store"]
    /\ UNCHANGED <<pc, ini, submitted, progress_lock, render_count,
                   successful_renders, failed_renders, count_reads, fut,
                   cvars, fvars, evars, dvars, ovars>>

\* ... and stores the sum
store(k) ==
    /\ rpc[k] = "store"
    /\ render_count' = loaded[k] + 1
    /\ loaded' = [loaded EXCEPT ![k] = 0]
    /\ rpc' = [rpc EXCEPT ![k] = "read"]
    /\ UNCHANGED <<pc, ini, submitted, progress_lock, successful_renders,
                   failed_renders, count_reads, fut, cvars, fvars, evars, dvars, ovars>>

\* leaving a with block releases the lock the task holds
released(lock, k) == IF lock = k THEN 0 ELSE lock

\* current_count = self._render_count, then the with block ends
read(k) ==
    /\ rpc[k] = "read"
    /\ count_reads' = [count_reads EXCEPT ![render_count] = @ + 1]
    /\ progress_lock' = released(progress_lock, k)
    /\ rpc' = [rpc EXCEPT ![k] = "prepare"]
    /\ UNCHANGED <<pc, ini, submitted, render_count, successful_renders,
                   failed_renders, loaded, fut, cvars, fvars, evars, dvars, ovars>>

\* The task function returns: its future holds the value.
returns(k, value) ==
    /\ rpc' = [rpc EXCEPT ![k] = "done"]
    /\ fut' = [fut EXCEPT ![k] = value]

\* Before the renderer: cameracontrol.ini, campreset.ini, the output
\* resolution, the frame range of the descriptor, the output directory removed
\* and recreated. A failing check or a failing mkdir logs an error and returns
\* False; an exception anywhere reaches "except Exception" and returns False.
prepare(k) ==
    /\ rpc[k] = "prepare"
    /\ \/ /\ rpc' = [rpc EXCEPT ![k] = "run_freedview"]
          /\ UNCHANGED fut
       \/ returns(k, "False")
    /\ UNCHANGED <<pc, ini, submitted, progress_lock, render_count,
                   successful_renders, failed_renders, loaded, count_reads,
                   cvars, fvars, evars, dvars, ovars>>

\* How run_freedview can end: the executable is missing, Popen raises, the
\* renderer exits non-zero, the renderer exits 0 and the images are renamed.
RunOutcomes == {"no_exe", "popen_raised", "exit_nonzero", "exit_zero"}

\* run_freedview returns None on each of its paths (it catches what Popen and
\* the renaming raise), and _render_single_task then returns True.
after_run_freedview(outcome) == "True"

\* self.run_freedview(...) and the return that follows it; what is raised
\* outside the two try blocks of run_freedview reaches "except Exception"
run_freedview(k) ==
    /\ rpc[k] = "run_freedview"
    /\ \/ \E outcome \in RunOutcomes : returns(k, after_run_freedview(outcome))
       \/ returns(k, "False")
    /\ UNCHANGED <<pc, ini, submitted, progress_lock, render_count,
                   successful_renders, failed_renders, loaded, count_reads,
                   cvars, fvars, evars, dvars, ovars>>

RenderTask(k) ==
    \/ start(k)
    \/ acquire(k)
    \/ load(k)
    \/ store(k)
    \/ read(k)
    \/ prepare(k)
    \/ run_freedview(k)

(* ------------------------------------------------------------------------ *)
(* Phase 2 on disk: _render_single_task and run_freedview step by step      *)
(* ------------------------------------------------------------------------ *)

\* An output directory: missing, empty, holding images of an earlier run,
\* holding images of this run only, or both.
DirStates == {"absent", "empty", "stale", "fresh", "mixed"}

\* What a run finds on disk when it starts: no directory yet, or the directory
\* of an earlier run with its images.
InitialDirStates == {"absent", "stale"}

\* render_tasks is built version by version, and per version frame by frame
version_index(k) == (k - 1) \div ini.nFrames

json_index(k) == (k - 1) % ini.nFrames

\* output_path = folder_frame (testSets -> testSets_results) / freedview_ver /
\* freedview_ver_name: one directory per frame folder and version name
output_path(k) == <<json_index(k), version_index(k)>>

OutputPaths == (0 .. ini.nFrames - 1) \X (0 .. ini.nVer - 1)

\* A removal that leaves the directory and its content in place
rmtree_kept(d) == d

\* shutil.rmtree(output_path), called when the path exists
rmtree(d) == "absent"

remove_existing(d) == IF d # "absent" THEN rmtree(d) ELSE d

\* output_path_obj.mkdir(parents=True, exist_ok=True)
mkdir(d) == IF d = "absent" THEN "empty" ELSE d

\* the renderer writes its images into the directory it was given
rendered(d) ==
    CASE d = "empty" -> "fresh"
      [] d = "stale" -> "mixed"
      [] OTHER -> d

\* the task function returns, leaving in its future what ended it
ends(k, value, what) ==
    /\ returns(k, value)
    /\ fault' = [fault EXCEPT ![k] = what]
    /\ launched' = [launched EXCEPT ![k] = "none"]
    /\ found_dir' = [found_dir EXCEPT ![k] = "none"]

\* Lines 230-279: cameracontrol.ini and campreset.ini exist, the resolution
\* parses, the descriptor gives the frame range. A failing check logs an error
\* and returns False; anything else raised reaches "except Exception".
check_inputs(k) ==
    /\ rpc[k] = "prepare"
    /\ \/ /\ rpc' = [rpc EXCEPT ![k] = "output_dir"]
          /\ UNCHANGED <<fut, fault, launched, found_dir>>
       \/ ends(k, "False", "check_failed")
       \/ ends(k, "False", "raised")
    /\ UNCHANGED <<pc, ini, submitted, progress_lock, render_count,
                   successful_renders, failed_renders, loaded, count_reads,
                   cvars, disk, evars, dvars, ovars>>

\* Lines 281-300: the output directory is removed when it exists and created
\* again. rmtree raising reaches "except Exception"; mkdir raising logs an
\* error and returns False.
replace_output_dir(k) ==
    /\ rpc[k] = "output_dir"
    /\ \/ /\ disk' = [disk EXCEPT ![output_path(k)] = mkdir(remove_existing(@))]
          /\ found_dir' = [found_dir EXCEPT ![k] = disk[output_path(k)]]
          /\ rpc' = [rpc EXCEPT ![k] = "launch"]
          /\ UNCHANGED <<fut, fault, launched>>
       \/ /\ disk' = [disk EXCEPT ![output_path(k)] = remove_existing(@)]
          /\ ends(k, "False", "mkdir_failed")
       \/ /\ disk[output_path(k)] # "absent"
          /\ ends(k, "False", "raised")
          /\ UNCHANGED disk
    /\ UNCHANGED <<pc, ini, submitted, progress_lock, render_count,
                   successful_renders, failed_renders, loaded, count_reads,
                   cvars, evars, dvars, ovars>>

\* run_freedview up to Popen: a missing executable logs an error and returns;
\* Popen starts the renderer, or raises, which is logged before returning.
launch(k) ==
    /\ rpc[k] = "launch"
    /\ \/ /\ launched' = [launched EXCEPT ![k] = disk[output_path(k)]]
          /\ rpc' = [rpc EXCEPT ![k] = "communicate"]
          /\ UNCHANGED <<fut, fault, found_dir>>
       \/ ends(k, after_run_freedview("no_exe"), "no_exe")
       \/ ends(k, after_run_freedview("popen_raised"), "popen_raised")
    /\ UNCHANGED <<pc, ini, submitted, progress_lock, render_count,
                   successful_renders, failed_renders, loaded, count_reads,
                   cvars, disk, evars, dvars, ovars>>

\* process.communicate() returns: the renderer has written what it writes and
\* exited. A non-zero return code logs stderr and returns; after a zero one the
\* images are renamed in place. Then _render_single_task returns.
communicate(k) ==
    /\ rpc[k] = "communicate"
    /\ \E wrote \in BOOLEAN :
         disk' = [disk EXCEPT ![output_path(k)] = IF wrote THEN rendered(@) ELSE @]
    /\ \/ ends(k, after_run_freedview("exit_nonzero"), "exit_nonzero")
       \/ ends(k, after_run_freedview("exit_zero"), "exit_zero")
    /\ UNCHANGED <<pc, ini, submitted, progress_lock, render_count,
                   successful_renders, failed_renders, loaded, count_reads,
                   cvars, evars, dvars, ovars>>

RenderTaskOnDisk(k) ==
    \/ start(k)
    \/ acquire(k)
    \/ load(k)
    \/ store(k)
    \/ read(k)
    \/ check_inputs(k)
    \/ replace_output_dir(k)
    \/ launch(k)
    \/ communicate(k)

(* ------------------------------------------------------------------------ *)
(* Phase 3: RenderCompare._process_from_ini (main thread)                   *)
(* ------------------------------------------------------------------------ *)

\* The early returns of _process_from_ini: setTestPath or freedviewVer reads
\* 'error', the version string does not split in two, no frame folder found.
CompareAborts ==
    \/ ini.missing \in {"setTestPath", "freedviewVer"}
    \/ ~valid_format(freedview_split)
    \/ ini.nFrames = 0

process_begin ==
    /\ pc = "compare"
    /\ IF CompareAborts
         THEN /\ pc' = "compare_returned"
              /\ UNCHANGED processed_folders
         ELSE /\ pc' = "compare_submit"
              /\ processed_folders' = 0
    /\ UNCHANGED <<ini, rvars, fvars, csubmitted, cpc, compare_lock, cfut, evars, dvars, ovars>>

\* executor.submit(self._compare_single_folder, task)
csubmit ==
    /\ pc = "compare_submit"
    /\ IF csubmitted < total_folders
         THEN /\ csubmitted' = csubmitted + 1
              /\ cpc' = [cpc EXCEPT ![csubmitted + 1] = "queued"]
              /\ pc' = pc
         ELSE /\ pc' = "compare_collect"
              /\ UNCHANGED <<csubmitted, cpc>>
    /\ UNCHANGED <<ini, rvars, fvars, compare_lock, processed_folders, cfut, evars, dvars, ovars>>

\* The body of the as_completed loop: a True result increments
\* _processed_folders, False or an exception leaves it.
CountFolder(r, processed) == IF r = "True" THEN processed + 1 ELSE processed

ccollected == {f \in Folders : cfut[f] = "yielded"}

\* as_completed yields a finished future; the increment is made with
\* self._progress_lock held by the main thread
cas_completed(f) ==
    /\ pc = "compare_collect"
    /\ cfut[f] \in {"True", "False"}
    /\ cfut[f] = "True" => compare_lock = 0
    /\ processed_folders' = CountFolder(cfut[f], processed_folders)
    /\ cfut' = [cfut EXCEPT ![f] = "yielded"]
    /\ UNCHANGED <<pc, ini, rvars, fvars, csubmitted, cpc, compare_lock, evars, dvars, ovars>>

\* A loop left at the first future yielded, the executor not joined
ComparePoolDrained_FirstCompleted == ccollected # {}

ComparePoolDrained ==
    ccollected = Folders /\ \A f \in Folders : cpc[f] = "done"

process_end ==
    /\ pc = "compare_collect"
    /\ ComparePoolDrained
    /\ pc' = "compare_returned"
    /\ UNCHANGED <<ini, rvars, cvars, fvars, evars, dvars, ovars>>

(* ------------------------------------------------------------------------ *)
(* Phase 3: RenderCompare._compare_single_folder (worker threads)           *)
(* ------------------------------------------------------------------------ *)

CRunning == {f \in Folders : cpc[f] \notin {"unsubmitted", "queued", "done"}}

cstart(f) ==
    /\ cpc[f] = "queued"
    /\ \A g \in Folders : g < f => cpc[g] # "queued"
    /\ Cardinality(CRunning) < ini.W
    /\ cpc' = [cpc EXCEPT ![f] = "collect"]
    /\ UNCHANGED <<pc, ini, rvars, fvars, csubmitted, compare_lock,
                   processed_folders, cfut, evars, dvars, ovars>>

creturns(f, value) ==
    /\ cpc' = [cpc EXCEPT ![f] = "done"]
    /\ cfut' = [cfut EXCEPT ![f] = value]

\* The version output directories of the frame are read
\* (_collect_image_paths). A frame without both versions, with unequal counts
\* or with at most one image is skipped with a warning: False. An exception
\* reaches "except Exception": False.
collect_image_paths(f) ==
    /\ cpc[f] = "collect"
    /\ \/ /\ cpc' = [cpc EXCEPT ![f] = "acquire"]
          /\ UNCHANGED cfut
       \/ creturns(f, "False")
    /\ UNCHANGED <<pc, ini, rvars, fvars, csubmitted, compare_lock,
                   processed_folders, evars, dvars, ovars>>

\* with self._progress_lock:
cacquire(f) ==
    /\ cpc[f] = "acquire"
    /\ compare_lock = 0
    /\ compare_lock' = f
    /\ cpc' = [cpc EXCEPT ![f] = "progress"]
    /\ UNCHANGED <<pc, ini, rvars, fvars, csubmitted, processed_folders, cfut, evars, dvars, ovars>>

\* current_processed = self._processed_folders + 1
current_processed == processed_folders + 1

\* current_processed is logged, the lock released
log_progress(f) ==
    /\ cpc[f] = "progress"
    /\ progress_logged' = progress_logged \cup
           {[folder |-> f, current_processed |-> current_processed]}
    /\ compare_lock' = released(compare_lock, f)
    /\ cpc' = [cpc EXCEPT ![f] = "compare"]
    /\ UNCHANGED <<pc, ini, rvars, fvars, csubmitted, processed_folders, cfut, evars,
                   dvars, xvars, jvars, lvars, nvars, mvars, ivars, tvars, localized>>

\* How render_compare_do_it can end: the report is written, or it logs an
\* error and returns without one (no pair compared, the XML not writable, ...).
CompareOutcomes == {"report", "no_report"}

\* render_compare_do_it returns None on each path and the task returns True;
\* what it does not catch itself reaches "except Exception": False.
render_compare_do_it(f) ==
    /\ cpc[f] = "compare"
    /\ \/ \E outcome \in CompareOutcomes : creturns(f, "True")
       \/ creturns(f, "False")
    /\ UNCHANGED <<pc, ini, rvars, fvars, csubmitted, compare_lock,
                   processed_folders, evars, dvars, ovars>>

CompareTask(f) ==
    \/ cstart(f)
    \/ collect_image_paths(f)
    \/ cacquire(f)
    \/ log_progress(f)
    \/ render_compare_do_it(f)

(* ------------------------------------------------------------------------ *)
(* The pipeline: main.run_all                                               *)
(* ------------------------------------------------------------------------ *)

\* freedview_runner.do_it(ini_path) has returned: RenderCompare(ini_path, ...)
enter_compare ==
    /\ pc = "render_returned"
    /\ pc' = "compare"
    /\ UNCHANGED <<ini, rvars, cvars, fvars, evars, dvars, ovars>>

\* "All phases completed successfully!"
run_all_end ==
    /\ pc = "compare_returned"
    /\ pc' = "finished"
    /\ UNCHANGED <<ini, rvars, cvars, fvars, evars, dvars, ovars>>

\* The functions of the localizer are not followed while the pipeline runs
DiscoveryIdle ==
    /\ tree = {}
    /\ frame_folder = <<>>
    /\ dpc = "idle"
    /\ unvisited = {}
    /\ event_path_list = <<>>
    /\ collect_i = 0
    /\ frame_name_list = <<>>
    /\ folder_frame_list = <<>>

\* get_json_files is not called with create_folders enabled
CreateIdle ==
    /\ extra_dirs = {}
    /\ sport_folder_index = 1
    /\ stadium_folder_index = 1
    /\ run = 0
    /\ first_dirs = {}

\* no comparison job is followed on its own
JobIdle ==
    /\ job = <<>>
    /\ jpc = "idle"
    /\ skip_log = "none"
    /\ start_frame = <<>>
    /\ frames_read = <<>>
    /\ result_ssim_list = <<>>
    /\ results_folder = {}
    /\ images_written = {}
    /\ report = <<>>
    /\ xml_raised = "none"
    /\ job_result = "none"

\* duplicate_and_modify_json_files is not followed
DuplicateIdle ==
    /\ json_file_list = <<>>
    /\ json_folders = <<>>
    /\ files = <<>>
    /\ files_before = <<>>
    /\ lpc = "idle"
    /\ loop_i = 0

\* the renaming loop of run_freedview is not followed
RenameIdle ==
    /\ rename_dir = <<>>
    /\ dir_files = <<>>
    /\ listing = {}
    /\ npc = "idle"

\* mean_squared_error is not called
MseIdle ==
    /\ image_a = <<>>
    /\ image_b = <<>>
    /\ mse = <<>>

\* getDataINI is not called
IniIdle ==
    /\ ini_file = <<>>
    /\ file_check = FALSE
    /\ data_list = <<>>

\* none of the functions followed on their own after get_json_files is running
\* no phase of run_all has run
PhasesIdle == localized = FALSE /\ progress_logged = {}

\* no task list is being built
PathsIdle ==
    /\ layout = <<>>
    /\ render_tasks = <<>>
    /\ output_paths = <<>>
    /\ tpc = "idle"

LaterIdle ==
    JobIdle /\ DuplicateIdle /\ RenameIdle /\ MseIdle /\ IniIdle /\ PhasesIdle /\ PathsIdle

\* none of the functions followed on their own is running
OthersIdle == CreateIdle /\ LaterIdle

LocalizerIdle ==
    /\ event_name_set_test = <<>>
    /\ test_path = <<>>
    /\ is_event_result = "none"
    /\ DiscoveryIdle

Init ==
    /\ pc = "localize"
    /\ ini \in Inputs
    /\ submitted = 0
    /\ rpc = [k \in Tasks |-> "unsubmitted"]
    /\ progress_lock = 0
    /\ render_count = 0
    /\ successful_renders = 0
    /\ failed_renders = 0
    /\ loaded = [k \in Tasks |-> 0]
    /\ count_reads = [v \in 0 .. total_renders |-> 0]
    /\ fut = [k \in Tasks |-> "pending"]
    /\ csubmitted = 0
    /\ cpc = [f \in Folders |-> "unsubmitted"]
    /\ compare_lock = 0
    /\ processed_folders = 0
    /\ cfut = [f \in Folders |-> "pending"]
    /\ fault = [k \in Tasks |-> "none"]
    /\ disk = <<>>
    /\ launched = [k \in Tasks |-> "none"]
    /\ found_dir = [k \in Tasks |-> "none"]
    /\ LocalizerIdle
    /\ OthersIdle

Next ==
    \/ localize
    \/ do_it_begin
    \/ submit
    \/ \E k \in Tasks : as_completed(k)
    \/ do_it_end
    \/ \E k \in Tasks : RenderTask(k)
    \/ enter_compare
    \/ process_begin
    \/ csubmit
    \/ \E f \in Folders : cas_completed(f)
    \/ process_end
    \/ \E f \in Folders : CompareTask(f)
    \/ run_all_end

vars == <<pvars, evars, dvars, ovars>>

Spec == Init /\ [][Next]_vars

(* ------------------------------------------------------------------------ *)
(* Properties of the pipeline and its pools (checked under Spec)            *)
(* ------------------------------------------------------------------------ *)

\* do_it has returned to its caller
RenderReturned ==
    pc \in {"render_returned", "compare", "compare_submit", "compare_collect",
            "compare_returned", "finished"}

\* _process_from_ini has returned to its caller
CompareReturned == pc \in {"compare_returned", "finished"}

\* C1: while the main thread collects the futures, the succeeded counter plus
\* the failed counter is the number of futures yielded so far, and once the
\* pool has drained and do_it has returned the sum is exactly the number N of
\* render jobs submitted: no job is counted twice, none is left uncounted.
C1_CountersSumToN ==
    /\ pc = "render_collect" =>
         successful_renders + failed_renders = Cardinality(collected)
    /\ (RenderReturned /\ ~RenderAborts) =>
         /\ submitted = total_renders
         /\ successful_renders + failed_renders = total_renders

\* C1 witness: a drained pool of the largest run, two workers, jobs of both
\* results counted
C1_Witness ==
    /\ pc = "render_returned"
    /\ total_renders = 2 * MaxFrames
    /\ ini.W = MaxWorkers
    /\ successful_renders > 0
    /\ failed_renders > 0

\* C2: no two render jobs read back the same value of _render_count, no job
\* reads 0, every value read is one the counter has reached, and once the pool
\* has drained the counter is N and the values read are exactly 1..N.
C2_CountsReadAreOneToN ==
    /\ count_reads[0] = 0
    /\ \A v \in 1 .. total_renders :
         /\ count_reads[v] <= 1
         /\ count_reads[v] = 1 => v <= render_count
    /\ render_count <= total_renders
    /\ (RenderReturned /\ ~RenderAborts) =>
         /\ render_count = total_renders
         /\ \A v \in 1 .. total_renders : count_reads[v] = 1

\* C2 witness: two jobs are in flight, one inside the counter block and one
\* waiting for the lock, after an earlier job has read its value
C2_Witness ==
    \E j, k \in Tasks :
        /\ j # k
        /\ progress_lock = k
        /\ rpc[k] = "read"
        /\ rpc[j] = "acquire"
        /\ count_reads[1] = 1

\* C4: when do_it has returned, no render job it submitted is queued or
\* running, and when _process_from_ini has returned, no comparison job it
\* submitted is queued or running: every submitted job is done.
C4_PhasesReturnDrained ==
    /\ RenderReturned =>
         \A k \in Tasks : rpc[k] = (IF k <= submitted THEN "done" ELSE "unsubmitted")
    /\ CompareReturned =>
         \A f \in Folders : cpc[f] = (IF f <= csubmitted THEN "done" ELSE "unsubmitted")

\* C4 witness: both phases have returned after running every job of the
\* largest run
C4_Witness ==
    /\ pc = "finished"
    /\ submitted = 2 * MaxFrames
    /\ csubmitted = MaxFrames
    /\ ini.W = MaxWorkers

\* C5: the phases run in the order localize, render, compare (no render job
\* exists while localize runs, no comparison job exists before do_it has
\* returned), and whenever a comparison job has started to read the version
\* output directories every render job the render phase submitted is done
\* (and no other render job exists).
C5_RenderBeforeCompare ==
    /\ pc = "localize" => submitted = 0 /\ csubmitted = 0
    /\ ~RenderReturned => csubmitted = 0
    /\ \A f \in Folders :
         cpc[f] \notin {"unsubmitted", "queued"} =>
            /\ RenderReturned
            /\ \A k \in Tasks : k <= submitted => rpc[k] = "done"
            /\ \A k \in Tasks : k > submitted => rpc[k] = "unsubmitted"

\* C5 witness: a comparison job reads its directories in a run that rendered
\* every frame with both versions
C5_Witness ==
    /\ submitted = 2 * MaxFrames
    /\ successful_renders > 0
    /\ \E f \in Folders : cpc[f] = "collect"
    /\ ini.W = MaxWorkers

RenderRequired == {"setTestPath", "freedviewPath", "freedviewVer"}

CompareRequired == {"setTestPath", "freedviewVer"}

LocalizeRequired == {"setTestPath"}

\* C23: when a key a phase requires reads 'error', the phase returns having
\* done nothing: the localizer never reaches the functions that make
\* directories and write descriptors, the render phase hands no task to its
\* pool and no task runs, the compare phase hands no folder to its pool and no
\* comparison runs; the phase after it is entered all the same (nothing is
\* raised).
C23_MissingKeyReturns ==
    /\ ini.missing \in LocalizeRequired => ~localized
    /\ ini.missing \in RenderRequired =>
         /\ submitted = 0
         /\ \A k \in Tasks : rpc[k] = "unsubmitted"
         /\ pc \notin {"render_submit", "render_collect"}
    /\ ini.missing \in CompareRequired =>
         /\ csubmitted = 0
         /\ \A f \in Folders : cpc[f] = "unsubmitted"
         /\ pc \notin {"compare_submit", "compare_collect"}

\* C23 witness: the run has ended with freedviewPath unreadable and all else
\* in place: the localizer ran, the render phase dispatched nothing, and the
\* compare phase, which does not need the key, dispatched every folder
C23_Witness ==
    /\ pc = "finished"
    /\ ini.missing = "freedviewPath"
    /\ ini.nFrames = MaxFrames
    /\ ini.nVer = 2
    /\ Len(freedview_split) = 2
    /\ localized
    /\ submitted = 0
    /\ csubmitted = MaxFrames

\* The positions at which a task waits for its renderer or reads and writes
\* files and images
RenderIO == {"prepare", "run_freedview"}

CompareIO == {"collect", "compare"}

\* C24: every increment of a run-level counter is made with the progress lock
\* held by the thread that increments, so no increment is made at a moment at
\* which another thread holds the lock; and no thread holds the lock while it
\* waits for a renderer or reads or writes files.
C24_CountersUnderLock ==
    [][ /\ render_count' # render_count => progress_lock \in Tasks
        /\ successful_renders' # successful_renders => progress_lock = 0
        /\ failed_renders' # failed_renders => progress_lock = 0
        /\ processed_folders' # processed_folders => compare_lock = 0
        /\ \A k \in Tasks : progress_lock = k => rpc[k] \notin RenderIO
        /\ \A f \in Folders : compare_lock = f => cpc[f] \notin CompareIO
      ]_vars

\* The part of C24 the code keeps: the dispatched counter and the processed
\* counter change under their locks, and neither lock is held across a
\* renderer or a comparison.
C24_LockedCounters ==
    [][ /\ render_count' # render_count => progress_lock \in Tasks
        /\ processed_folders' # processed_folders => compare_lock = 0
        /\ \A k \in Tasks : progress_lock = k => rpc[k] \notin RenderIO
        /\ \A f \in Folders : compare_lock = f => cpc[f] \notin CompareIO
      ]_vars

\* the folders whose comparison has been run to its end
Compared == {f \in Folders : cpc[f] = "done" /\ \E e \in progress_logged : e.folder = f}

\* C27: the counts logged for two folders differ, and the count a folder logs
\* is the number of folders compared before it plus one.
C27_DistinctProgressCounts ==
    [][ /\ \A a, b \in progress_logged' :
              a.folder # b.folder => a.current_processed # b.current_processed
        /\ \A e \in progress_logged' \ progress_logged :
              e.current_processed = Cardinality(Compared) + 1
      ]_vars

(* ------------------------------------------------------------------------ *)
(* The render phase alone (main.run_render), followed on disk               *)
(* ------------------------------------------------------------------------ *)

RenderInputs ==
    [missing : MissingKeys, freedview_ver : VersionStrings, nVer : VersionCounts,
     nFrames : 0 .. MaxRenderFrames, W : 1 .. MaxWorkers]

InitRender ==
    /\ pc = "render"
    /\ ini \in RenderInputs
    /\ submitted = 0
    /\ rpc = [k \in Tasks |-> "unsubmitted"]
    /\ progress_lock = 0
    /\ render_count = 0
    /\ successful_renders = 0
    /\ failed_renders = 0
    /\ loaded = [k \in Tasks |-> 0]
    /\ count_reads = [v \in 0 .. total_renders |-> 0]
    /\ fut = [k \in Tasks |-> "pending"]
    /\ csubmitted = 0
    /\ cpc = <<>>
    /\ compare_lock = 0
    /\ processed_folders = 0
    /\ cfut = <<>>
    /\ fault = [k \in Tasks |-> "none"]
    /\ disk \in [OutputPaths -> InitialDirStates]
    /\ launched = [k \in Tasks |-> "none"]
    /\ found_dir = [k \in Tasks |-> "none"]
    /\ LocalizerIdle
    /\ OthersIdle

NextRender ==
    \/ do_it_begin
    \/ submit
    \/ \E k \in Tasks : as_completed(k)
    \/ do_it_end
    \/ \E k \in Tasks : RenderTaskOnDisk(k)

SpecRender == InitRender /\ [][NextRender]_vars

(* ------------------------------------------------------------------------ *)
(* Properties of the render tasks on disk (checked under SpecRender)        *)
(* ------------------------------------------------------------------------ *)

\* What ended a job that raised an exception while it ran: one raised in
\* _render_single_task itself, or one raised by Popen in run_freedview
RaisedFaults == {"raised", "popen_raised"}

\* the loop body takes the future of job k and counts it as a failure
CountedFailed(k) ==
    /\ failed_renders' = failed_renders + 1
    /\ successful_renders' = successful_renders

\* the future of job k is yielded in this step
Yielded(k) == fut[k] # "yielded" /\ fut'[k] = "yielded"

\* C3: a render job that raised an exception at some point of its execution
\* is counted once, as a failure, when its future is yielded; the exception
\* does not reach the caller, and do_it returns only when every other job it
\* submitted has run to completion.
C3_RaisingJobCountedFailed ==
    /\ [][\A k \in Tasks : (Yielded(k) /\ fault[k] \in RaisedFaults) => CountedFailed(k)]_vars
    /\ [](pc = "render_returned" => \A k \in Tasks : k <= submitted => rpc[k] = "done")

\* C6: a render job whose renderer exited with a non-zero code is counted in
\* the failed counter and not in the succeeded counter when its future is
\* yielded.
C6_NonZeroExitCountedFailed ==
    [][\A k \in Tasks : (Yielded(k) /\ fault[k] = "exit_nonzero") => CountedFailed(k)]_vars

\* C7: while the renderer of a task runs, the output directory it was started
\* on existed and was empty at the launch, whatever the run found at that path.
C7_LaunchedOnEmptyDir ==
    \A k \in Tasks : launched[k] # "none" => launched[k] = "empty"

\* C7 witness: the renderer runs for a task whose output directory held the
\* images of an earlier run when the run started
C7_Witness ==
    \E k \in Tasks :
        /\ rpc[k] = "communicate"
        /\ found_dir[k] = "stale"
        /\ launched[k] = "empty"

\* a directory that holds images of an earlier run
HoldsEarlierImages(d) == d \in {"stale", "mixed"}

\* C29: when do_it has returned, no output directory of a task of the run
\* holds images of an earlier run, whatever way the task ended.
C29_NoStaleOutput ==
    pc = "render_returned" =>
        \A k \in 1 .. submitted : ~HoldsEarlierImages(disk[output_path(k)])

(* ------------------------------------------------------------------------ *)
(* JsonLocalizer.is_event                                                   *)
(* ------------------------------------------------------------------------ *)

\* Names and patterns are sequences of one-character strings; a path is the
\* sequence of its names.

\* characters a pattern may need beyond the 20 of the test pattern
MaxPatternExtra == 2
\* characters that follow the matching part of a basename
MaxTail == 2

digits == {"0", "1", "2", "3", "4", "5", "6", "7", "8", "9"}

\* "E##_##_##_##_##_##__", the pattern of the tests
TestPattern ==
    <<"E", "#", "#", "_", "#", "#", "_", "#", "#", "_",
      "#", "#", "_", "#", "#", "_", "#", "#", "_", "_">>

\* os.path.basename of a path without a trailing separator
basename(path) == path[Len(path)]

\* A pattern character that is taken for a match only when equal
char_matches_literal(p, c) == p = c

\* One position of the comparison: equal characters, or '#' against a digit
char_matches(p, c) == p = c \/ (p = "#" /\ c \in digits)

RECURSIVE count_matches(_, _, _, _)
\* the for loop from position x on, match_count being n: it counts the
\* matching positions and breaks at the first one that does not match
count_matches(P, B, x, n) ==
    IF x > Len(P) THEN n
    ELSE IF char_matches(P[x], B[x]) THEN count_matches(P, B, x + 1, n + 1)
    ELSE n

is_event(P, path) ==
    LET split_path == basename(path)
    IN IF Len(split_path) < Len(P) THEN FALSE
       ELSE count_matches(P, split_path, 1, 0) >= 20

\* The patterns tried: the first n characters of the test pattern continued
\* with wildcards
PatternOfLen(n) ==
    [i \in 1 .. n |-> IF i <= Len(TestPattern) THEN TestPattern[i] ELSE "#"]

LongestPattern == PatternOfLen(Len(TestPattern) + MaxPatternExtra)

Patterns ==
    {PatternOfLen(n) : n \in Len(TestPattern) - 1 .. Len(TestPattern) + MaxPatternExtra}

\* a name the pattern matches: each wildcard replaced by d
Fill(P, d) == [i \in 1 .. Len(P) |-> IF P[i] = "#" THEN d ELSE P[i]]

TailChars == {"x", "7", "_"}

Tails == UNION {[1 .. n -> TailChars] : n \in 0 .. MaxTail}

\* The basenames tried: the first m characters of a matching name, then a tail
Basenames ==
    {SubSeq(Fill(LongestPattern, d), 1, m) \o t :
        m \in 0 .. Len(LongestPattern), d \in {"1", "#"}, t \in Tails}

\* the directories above the basename
Parents == {<<>>, <<(<<"s", "o", "m", "e">>), (<<"p", "a", "t", "h">>)>>}

\* The pipeline is not run while the localizer's functions are followed
PipelineIdle ==
    /\ pc = "idle"
    /\ ini = [missing |-> "none", freedview_ver |-> <<>>, nVer |-> 0, nFrames |-> 0, W |-> 1]
    /\ submitted = 0
    /\ rpc = <<>>
    /\ progress_lock = 0
    /\ render_count = 0
    /\ successful_renders = 0
    /\ failed_renders = 0
    /\ loaded = <<>>
    /\ count_reads = <<>>
    /\ fut = <<>>
    /\ csubmitted = 0
    /\ cpc = <<>>
    /\ compare_lock = 0
    /\ processed_folders = 0
    /\ cfut = <<>>
    /\ fault = <<>>
    /\ disk = <<>>
    /\ launched = <<>>
    /\ found_dir = <<>>

InitEvent ==
    /\ PipelineIdle
    /\ DiscoveryIdle
    /\ event_name_set_test \in Patterns
    /\ \E B \in Basenames, parent \in Parents : test_path = parent \o <<B>>
    /\ is_event_result = "none"
    /\ OthersIdle

\* self.is_event(event_name_set_test, test_path)
call_is_event ==
    /\ is_event_result = "none"
    /\ is_event_result' =
         (IF is_event(event_name_set_test, test_path) THEN "True" ELSE "False")
    /\ UNCHANGED <<pvars, dvars, ovars, event_name_set_test, test_path>>

NextEvent == call_is_event

SpecEvent == InitEvent /\ [][NextEvent]_vars

\* The number of leading positions of P that B matches, up to the first
\* mismatch (or the end of the shorter of the two)
LeadingMatches(P, B) ==
    LET Shorter == IF Len(B) < Len(P) THEN Len(B) ELSE Len(P)
    IN Cardinality({n \in 1 .. Shorter :
            \A i \in 1 .. n : P[i] = B[i] \/ (P[i] = "#" /\ B[i] \in digits)})

\* C8: is_event(P, path) returns true iff the basename B of the path has
\* len(B) >= len(P) and at least 20 leading positions of P are matched by B
\* (equal characters, or '#' against a decimal digit, counted up to the first
\* mismatch); it returns false for every basename shorter than P.
C8_IsEventCharacterised ==
    is_event_result # "none" =>
        LET P == event_name_set_test
            B == test_path[Len(test_path)]
        IN /\ (is_event_result = "True") <=>
                (Len(B) >= Len(P) /\ LeadingMatches(P, B) >= 20)
           /\ Len(B) < Len(P) => is_event_result = "False"

\* C8 witness: is_event returned true for a basename longer than the test
\* pattern, under parent directories, that matches a longer pattern with digits
\* for wildcards on exactly 20 leading positions and breaks at the 21st
C8_Witness ==
    /\ is_event_result = "True"
    /\ Len(test_path) > 1
    /\ LET P == event_name_set_test
           B == test_path[Len(test_path)]
       IN /\ Len(P) > 20
          /\ LeadingMatches(P, B) = 20
          /\ \E i \in 1 .. 20 : P[i] = "#" /\ B[i] \in digits

(* ------------------------------------------------------------------------ *)
(* JsonLocalizer.get_json_files (create_folders = False, as every caller    *)
(* passes it)                                                               *)
(* ------------------------------------------------------------------------ *)

\* event directories below the root
MaxEvents == 2

\* The directories an event can lie under: Event, SportType/Event,
\* SportType/Stadium/Event, SportType/Stadium/Category/Event
SportTypes == {<<"a">>, <<"b">>}

Stadiums == {<<"s">>, <<"t">>}

Categories == {<<"c">>}

Ancestors ==
    {<<>>}
    \cup {<<x>> : x \in SportTypes}
    \cup {<<x, y>> : x \in SportTypes, y \in Stadiums}
    \cup {<<x, y, z>> : x \in SportTypes, y \in Stadiums, z \in Categories}

\* two names the test pattern matches
EventNames == {Fill(TestPattern, d) : d \in {"1", "2"}}

EventSlots == {a \o <<e>> : a \in Ancestors, e \in EventNames}

RECURSIVE TreesUpTo(_)
\* the sets of at most n event directories
TreesUpTo(n) ==
    IF n = 0 THEN {{}}
    ELSE {T \cup {e} : T \in TreesUpTo(n - 1), e \in EventSlots}

\* each event holds one set directory with one frame folder
SetName == <<"S">>

\* names a frame folder may have
FrameNames ==
    { <<"F", "4", "2">>, <<"F", "1">>, <<"F", "4", "a">>, <<"X", "F", "4", "2">>,
      <<"F">>, <<"4", "2">>, <<"F", "F", "4", "2">>, <<"F", "4", "_", "2">>,
      <<"F", "+", "4">> }

\* the frame folder, and whether Render/Json/standAloneRender.json is in it
FrameFolders == [name : FrameNames, descriptor : BOOLEAN]

\* every directory of the tree, as its path from the root
Dirs ==
    UNION {{SubSeq(e, 1, n) : n \in 1 .. Len(e)} : e \in tree}
    \cup {e \o <<SetName>> : e \in tree}
    \cup {e \o <<SetName, frame_folder.name>> : e \in tree}

root == <<>>

\* Path.iterdir(), the entries that are directories
iterdir(dir) ==
    {d \in Dirs : Len(d) = Len(dir) + 1 /\ SubSeq(d, 1, Len(dir)) = dir}

\* what a traversal returns when it found no event
None == <<>>

\* _traverse_stadium returns the first directory of the stadium that is an
\* event; iterdir gives the directories in no particular order, so any of them
\* can be the first.
traverse_stadium(stadium_path) ==
    LET found == {c \in iterdir(stadium_path) : is_event(event_name_set_test, c)}
    IN IF found = {} THEN {None} ELSE found

\* _traverse_sport_type returns at the first directory of the sport type that
\* is an event, or under which _traverse_stadium finds one
traverse_sport_type(sport_type_path) ==
    LET items == iterdir(sport_type_path)
        found ==
            {c \in items : is_event(event_name_set_test, c)}
            \cup UNION {traverse_stadium(c) \ {None} :
                          c \in {i \in items : ~is_event(event_name_set_test, i)}}
    IN IF found = {} THEN {None} ELSE found

RECURSIVE split(_, _)
\* str.split(sep) for a one-character separator
split(str, sep) ==
    IF \A i \in 1 .. Len(str) : str[i] # sep THEN <<str>>
    ELSE LET i == CHOOSE i \in 1 .. Len(str) :
                     str[i] = sep /\ \A j \in 1 .. i - 1 : str[j] # sep
         IN <<SubSeq(str, 1, i - 1)>> \o split(SubSeq(str, i + 1, Len(str)), sep)

RECURSIVE lstrip(_)
lstrip(str) == IF str # <<>> /\ str[1] = " " THEN lstrip(Tail(str)) ELSE str

RECURSIVE rstrip(_)
rstrip(str) ==
    IF str # <<>> /\ str[Len(str)] = " "
      THEN rstrip(SubSeq(str, 1, Len(str) - 1))
      ELSE str

\* int(str) does not raise ValueError: surrounding whitespace, an optional
\* sign, then decimal digits, single underscores allowed between digits
int_parses(str) ==
    LET t == rstrip(lstrip(str))
        u == IF t # <<>> /\ t[1] \in {"+", "-"} THEN Tail(t) ELSE t
    IN /\ u # <<>>
       /\ \A i \in 1 .. Len(u) : u[i] \in digits \cup {"_"}
       /\ u[1] \in digits
       /\ u[Len(u)] \in digits
       /\ \A i \in 1 .. Len(u) - 1 : ~(u[i] = "_" /\ u[i + 1] = "_")

\* the check of a frame folder's name: split('F') gives two parts and the
\* last one parses as an integer
frame_name_accepted(frame_name) ==
    LET split_string == split(frame_name, "F")
    IN Len(split_string) = 2 /\ int_parses(split_string[Len(split_string)])

\* the orders in which a loop can meet the members of S
Orderings(S) ==
    {q \in [1 .. Cardinality(S) -> S] :
        \A i, j \in 1 .. Cardinality(S) : i # j => q[i] # q[j]}

\* the frame folders of an event that the second loop appends
frames_appended(event_path) ==
    {f \in UNION {iterdir(set_item) : set_item \in iterdir(event_path)} :
        frame_name_accepted(basename(f)) /\ frame_folder.descriptor}

InitDisc ==
    /\ PipelineIdle
    /\ event_name_set_test = TestPattern
    /\ test_path = <<>>
    /\ is_event_result = "none"
    /\ tree \in TreesUpTo(MaxEvents)
    /\ frame_folder \in FrameFolders
    /\ dpc = "root_loop"
    /\ unvisited = {SubSeq(e, 1, 1) : e \in tree}
    /\ event_path_list = <<>>
    /\ collect_i = 0
    /\ frame_name_list = <<>>
    /\ folder_frame_list = <<>>
    /\ OthersIdle

\* One iteration of "for item in base_path.iterdir()": an event is appended,
\* any other directory is searched by _traverse_sport_type and what it returns
\* is appended unless it is None
root_iter(item) ==
    /\ dpc = "root_loop"
    /\ item \in unvisited
    /\ unvisited' = unvisited \ {item}
    /\ IF is_event(event_name_set_test, item)
         THEN event_path_list' = Append(event_path_list, item)
         ELSE \E event_path \in traverse_sport_type(item) :
                event_path_list' =
                    IF event_path # None
                      THEN Append(event_path_list, event_path)
                      ELSE event_path_list
    /\ UNCHANGED <<pvars, evars, ovars, tree, frame_folder, dpc, collect_i,
                   frame_name_list, folder_frame_list>>

\* the first loop ends, the six lists are created empty
root_done ==
    /\ dpc = "root_loop"
    /\ unvisited = {}
    /\ dpc' = "collect_loop"
    /\ collect_i' = 1
    /\ UNCHANGED <<pvars, evars, ovars, tree, frame_folder, unvisited, event_path_list,
                   frame_name_list, folder_frame_list>>

\* One iteration of "for event_path in event_path_list": the frame folders of
\* its sets with an accepted name and a descriptor are appended
collect_event ==
    /\ dpc = "collect_loop"
    /\ collect_i <= Len(event_path_list)
    /\ \E q \in Orderings(frames_appended(event_path_list[collect_i])) :
         /\ folder_frame_list' = folder_frame_list \o q
         /\ frame_name_list' =
              frame_name_list \o [i \in 1 .. Len(q) |-> basename(q[i])]
    /\ collect_i' = collect_i + 1
    /\ UNCHANGED <<pvars, evars, ovars, tree, frame_folder, dpc, unvisited,
                   event_path_list>>

get_json_files_return ==
    /\ dpc = "collect_loop"
    /\ collect_i > Len(event_path_list)
    /\ dpc' = "returned"
    /\ UNCHANGED <<pvars, evars, ovars, tree, frame_folder, unvisited, event_path_list,
                   collect_i, frame_name_list, folder_frame_list>>

NextDisc ==
    \/ \E item \in unvisited : root_iter(item)
    \/ root_done
    \/ collect_event
    \/ get_json_files_return

SpecDisc == InitDisc /\ [][NextDisc]_vars

\* the letter F followed by one or more decimal digits and nothing else
IsFDigits(name) ==
    /\ Len(name) >= 2
    /\ name[1] = "F"
    /\ \A i \in 2 .. Len(name) : name[i] \in digits

\* C9: when get_json_files returns, for every directory 1 to 4 levels below
\* the root whose basename is an event name while none of its ancestors is,
\* every frame folder beneath it with a valid name and a descriptor is in the
\* catalog.
C9_DiscoveryComplete ==
    dpc = "returned" =>
        \A e \in Dirs :
            (/\ Len(e) \in 1 .. 4
             /\ is_event(event_name_set_test, e)
             /\ \A n \in 1 .. Len(e) - 1 :
                    ~is_event(event_name_set_test, SubSeq(e, 1, n)))
            => \A f \in UNION {iterdir(set_item) : set_item \in iterdir(e)} :
                   (IsFDigits(f[Len(f)]) /\ frame_folder.descriptor)
                   => \E i \in 1 .. Len(folder_frame_list) : folder_frame_list[i] = f

\* C10: every frame name in the catalog is the letter F followed by one or
\* more decimal digits and nothing else.
C10_CatalogNamesAreFDigits ==
    \A i \in 1 .. Len(frame_name_list) : IsFDigits(frame_name_list[i])

(* ------------------------------------------------------------------------ *)
(* JsonLocalizer.get_json_files with create_folders enabled, called twice   *)
(* on the same tree                                                         *)
(* ------------------------------------------------------------------------ *)

sportType_ == <<"s", "p", "o", "r", "t", "T", "y", "p", "e", "_">>

stadiumName_ == <<"s", "t", "a", "d", "i", "u", "m", "N", "a", "m", "e", "_">>

stadiumName == SubSeq(stadiumName_, 1, Len(stadiumName_) - 1)

categoryName == <<"c", "a", "t", "e", "g", "o", "r", "y", "N", "a", "m", "e">>

RECURSIVE decimal(_)
\* the digits an f-string writes for a non-negative index
decimal(n) ==
    IF n < 10
      THEN <<<<"0", "1", "2", "3", "4", "5", "6", "7", "8", "9">>[n + 1]>>
      ELSE decimal(n \div 10) \o decimal(n % 10)

\* Path.parent
parent_of(path) == SubSeq(path, 1, Len(path) - 1)

RECURSIVE free_stadium_index(_, _)
\* while (stadium_folder_path / 'categoryName').exists(): index += 1
free_stadium_index(parent_dir, n) ==
    IF parent_dir \o <<stadiumName_ \o decimal(n), categoryName>> \in Dirs
      THEN free_stadium_index(parent_dir, n + 1)
      ELSE n

RECURSIVE free_sport_index(_, _)
\* while (sport_folder_path / 'stadiumName' / 'categoryName').exists(): index += 1
free_sport_index(parent_dir, n) ==
    IF parent_dir \o <<sportType_ \o decimal(n), stadiumName, categoryName>> \in Dirs
      THEN free_sport_index(parent_dir, n + 1)
      ELSE n

\* every directory mkdir(parents=True) makes sure of on the way to path
with_parents(path) == {SubSeq(path, 1, n) : n \in 1 .. Len(path)}

\* create_extra_folder(parent_path, 2) entered with self.stadium_folder_index
\* at index: the index it leaves, the directories that exist afterwards, the
\* path it returns
create_extra_folder_2(parent_path, index) ==
    LET n == free_stadium_index(parent_of(parent_path), index)
        new_folder_path ==
            parent_of(parent_path) \o <<stadiumName_ \o decimal(n), categoryName>>
    IN [index |-> n,
        dirs |-> extra_dirs \cup (with_parents(new_folder_path) \ Dirs),
        path |-> new_folder_path \o <<basename(parent_path)>>]

\* create_extra_folder(parent_path, 3)
create_extra_folder_3(parent_path, index) ==
    LET n == free_sport_index(parent_of(parent_path), index)
        new_folder_path ==
            parent_of(parent_path)
                \o <<sportType_ \o decimal(n), stadiumName, categoryName>>
    IN [index |-> n,
        dirs |-> extra_dirs \cup (with_parents(new_folder_path) \ Dirs),
        path |-> new_folder_path \o <<basename(parent_path)>>]

\* the first call of get_json_files starts on a tree without placeholders
InitCreate ==
    /\ PipelineIdle
    /\ event_name_set_test = TestPattern
    /\ test_path = <<>>
    /\ is_event_result = "none"
    /\ tree \in TreesUpTo(MaxEvents)
    /\ frame_folder = [name |-> <<"F", "4", "2">>, descriptor |-> TRUE]
    /\ dpc = "root_loop"
    /\ unvisited = {SubSeq(e, 1, 1) : e \in tree}
    /\ event_path_list = <<>>
    /\ collect_i = 0
    /\ frame_name_list = <<>>
    /\ folder_frame_list = <<>>
    /\ extra_dirs = {}
    /\ sport_folder_index = 1
    /\ stadium_folder_index = 1
    /\ run = 1
    /\ first_dirs = {}
    /\ LaterIdle

\* One iteration of the first loop on a directory that is an event: the
\* placeholder subpath is created and the path below it is appended
root_iter_event(item) ==
    /\ dpc = "root_loop"
    /\ item \in unvisited
    /\ is_event(event_name_set_test, item)
    /\ unvisited' = unvisited \ {item}
    /\ stadium_folder_index' = 1
    /\ LET made == create_extra_folder_3(item, sport_folder_index)
       IN /\ sport_folder_index' = made.index
          /\ extra_dirs' = made.dirs
          /\ event_path_list' = Append(event_path_list, made.path)
    /\ UNCHANGED <<pvars, evars, tree, frame_folder, dpc, collect_i,
                   frame_name_list, folder_frame_list, run, first_dirs, zvars>>

\* One iteration of the first loop on any other directory:
\* _traverse_sport_type returns at the first directory in it that is an event
\* (creating the placeholder subpath beside it) or under which
\* _traverse_stadium finds one; it returns None when there is none
root_iter_sport_type(item) ==
    /\ dpc = "root_loop"
    /\ item \in unvisited
    /\ ~is_event(event_name_set_test, item)
    /\ unvisited' = unvisited \ {item}
    /\ LET events == {c \in iterdir(item) : is_event(event_name_set_test, c)}
           stadiums == {c \in iterdir(item) \ events : traverse_stadium(c) # {None}}
       IN \/ /\ events \cup stadiums = {}
             /\ stadium_folder_index' = 1
             /\ UNCHANGED <<extra_dirs, event_path_list>>
          \/ \E stadium_path \in events :
                LET made == create_extra_folder_2(stadium_path, 1)
                IN /\ stadium_folder_index' = made.index
                   /\ extra_dirs' = made.dirs
                   /\ event_path_list' = Append(event_path_list, made.path)
          \/ \E stadium_item \in stadiums :
                \E event_path \in traverse_stadium(stadium_item) :
                    /\ stadium_folder_index' = 1
                    /\ event_path_list' = Append(event_path_list, event_path)
                    /\ UNCHANGED extra_dirs
    /\ UNCHANGED <<pvars, evars, tree, frame_folder, dpc, collect_i,
                   frame_name_list, folder_frame_list, sport_folder_index, run,
                   first_dirs, zvars>>

\* get_json_files has returned and is called again with the same arguments:
\* sport_folder_index restarts at 1 and the first loop lists the root as the
\* first call left it
call_again ==
    /\ dpc = "returned"
    /\ run = 1
    /\ run' = 2
    /\ first_dirs' = extra_dirs
    /\ sport_folder_index' = 1
    /\ dpc' = "root_loop"
    /\ unvisited' = iterdir(root)
    /\ event_path_list' = <<>>
    /\ collect_i' = 0
    /\ frame_name_list' = <<>>
    /\ folder_frame_list' = <<>>
    /\ UNCHANGED <<pvars, evars, tree, frame_folder, extra_dirs,
                   stadium_folder_index, zvars>>

NextCreate ==
    \/ \E item \in unvisited : root_iter_event(item)
    \/ \E item \in unvisited : root_iter_sport_type(item)
    \/ root_done
    \/ collect_event
    \/ get_json_files_return
    \/ call_again

SpecCreate == InitCreate /\ [][NextCreate]_vars

MaxImages == 2

RESULTS_FOLDER == "results"
DIFF_IMAGES_FOLDER == "diff_images"
ALPHA_IMAGES_FOLDER == "alpha_images"

\* A list of image paths is modelled by its length: the only path whose text
\* the code reads is the first one of the sorted original list, kept as
\* first_image_name.
FirstImageNames ==
    {<<"0", "0", "0", "5", ".", "j", "p", "g">>,
     <<"7", ".", "j", "p", "g">>,
     <<"-", "1", ".", "j", "p", "g">>,
     <<"a", "7", ".", "j", "p", "g">>}

\* what the results tree holds at <frame>/<freedview_ver>: the version
\* folders present, each with the number of its files that have a supported
\* image extension
VersionFolders ==
    UNION {[D -> 0 .. MaxImages] : D \in SUBSET {"v1", "v2"}}

\* <frame>/<freedview_ver>/results before the job: absent, an empty directory,
\* or a directory that holds the report of an earlier run
ResultsBefore == {"absent", "empty", "old"}

\* an entry of result_ssim_list: the position it was computed for and whether
\* it is the value of ssim() or the 0.0 appended when ssim() raised
SsimEntries == [pair : 0 .. MaxImages - 1, value : {"ssim", "0.0"}]

NoLists ==
    <<>>

\* the arguments of the calls of write_to_xml_file that are followed on
\* their own: compare_type_list and start_frame
WriteArguments ==
    [compare_type_list :
        {<<>>, <<(<<"mse">>)>>, <<<<>>, <<>>>>,
         <<(<<"mse">>), (<<[pair |-> 0, value |-> "ssim"]>>)>>},
     start_frame : {<<"0", "0", "0", "5">>, <<"-", "0", "0", "1">>, <<"a", "7">>}]

JobInputs ==
    [call : {"_compare_single_folder"},
     freedview_name_orig : {"v1"},
     freedview_name_tester : {"v1", "v2"},
     ver_exists : {TRUE},
     folders : VersionFolders,
     results_before : ResultsBefore,
     first_image_name : FirstImageNames,
     arguments : {NoLists},
     tester_shift : {0}]
    \cup
    [call : {"_compare_single_folder"},
     freedview_name_orig : {"v1"},
     freedview_name_tester : {"v1", "v2"},
     ver_exists : {FALSE},
     folders : {<<>>},
     results_before : {"absent"},
     first_image_name : {<<"7", ".", "j", "p", "g">>},
     arguments : {NoLists},
     tester_shift : {0}]
    \cup
    [call : {"write_to_xml_file"},
     freedview_name_orig : {"v1"},
     freedview_name_tester : {"v2"},
     ver_exists : {TRUE},
     folders : {<<>>},
     results_before : {"empty", "old"},
     first_image_name : {<<"7", ".", "j", "p", "g">>},
     arguments : WriteArguments,
     tester_shift : {0}]
    \cup
    [call : {"_compare_single_folder"},
     freedview_name_orig : {"v1"},
     freedview_name_tester : {"v2"},
     ver_exists : {TRUE},
     folders : {f \in VersionFolders : DOMAIN f = {"v1", "v2"} /\ f["v1"] = f["v2"]},
     results_before : {"absent"},
     first_image_name : {<<"0", "0", "0", "5", ".", "j", "p", "g">>},
     arguments : {NoLists},
     tester_shift : {1}]

RECURSIVE digits_value(_)
\* the number a string of digits and underscores denotes
digits_value(u) ==
    IF u = <<>> THEN 0
    ELSE IF u[Len(u)] = "_" THEN digits_value(SubSeq(u, 1, Len(u) - 1))
    ELSE 10 * digits_value(SubSeq(u, 1, Len(u) - 1))
         + (CHOOSE d \in 0 .. 9 : decimal(d) = <<u[Len(u)]>>)

\* int(str) for a string int() accepts
int_value(str) ==
    LET t == rstrip(lstrip(str))
    IN IF t[1] = "-" THEN 0 - digits_value(Tail(t))
       ELSE IF t[1] = "+" THEN digits_value(Tail(t))
       ELSE digits_value(t)

\* str(n) for an integer
str_of(n) == IF n < 0 THEN <<"-">> \o decimal(0 - n) ELSE decimal(n)

RECURSIVE zeros(_)
zeros(n) == IF n <= 0 THEN <<>> ELSE <<"0">> \o zeros(n - 1)

\* str.zfill(width): zeros go after a leading sign
zfill(str, width) ==
    IF Len(str) >= width THEN str
    ELSE IF str # <<>> /\ str[1] \in {"+", "-"}
      THEN <<str[1]>> \o zeros(width - Len(str)) \o Tail(str)
      ELSE zeros(width - Len(str)) \o str

\* _collect_image_paths: the directories other than results are matched by
\* name, the original version first (elif), and the image files of a matched
\* directory are collected
collect_image_paths_in(j) ==
    LET orig_found == j.freedview_name_orig \in DOMAIN j.folders
        tester_found == /\ j.freedview_name_tester \in DOMAIN j.folders
                        /\ j.freedview_name_tester # j.freedview_name_orig
    IN [image_orig_list |->
            IF orig_found THEN j.folders[j.freedview_name_orig] ELSE 0,
        image_tester_list |->
            IF tester_found THEN j.folders[j.freedview_name_tester] ELSE 0,
        freedview_path_orig |-> orig_found,
        freedview_path_tester |-> tester_found]

\* The sorted lists of a version folder's images, each image given by its
\* frame number counted from the first original image: the original images
\* are frames 0, 1, ...; the tester's are the same frames, or the frames from
\* tester_shift on.
image_orig_names(j) ==
    [i \in 1 .. collect_image_paths_in(j).image_orig_list |-> i - 1]

image_tester_names(j) ==
    [i \in 1 .. collect_image_paths_in(j).image_tester_list |-> i - 1 + j.tester_shift]

\* zip(image_orig_list, image_tester_list) at position i (from 0)
zip_at(j, i) == <<image_orig_names(j)[i + 1], image_tester_names(j)[i + 1]>>

\* A test that lets a single image through
lists_comparable_one(c) ==
    /\ c.image_orig_list = c.image_tester_list
    /\ c.image_orig_list >= 1
    /\ c.freedview_path_orig
    /\ c.freedview_path_tester

\* the test of _compare_single_folder before it runs the comparison
lists_comparable(c) ==
    /\ c.image_orig_list = c.image_tester_list
    /\ c.image_orig_list > 1
    /\ c.freedview_path_orig
    /\ c.freedview_path_tester

\* the job ends without a comparison, logging one record at the level given
skipped(level) ==
    /\ skip_log' = level
    /\ job_result' = "False"
    /\ jpc' = "returned"
    /\ UNCHANGED <<job, start_frame, frames_read, result_ssim_list,
                   results_folder, images_written, report, xml_raised>>

\* _compare_single_folder up to its call of render_compare_do_it; listing a
\* directory can raise, which the except clause logs as an error
compare_single_folder ==
    /\ jpc = "call"
    /\ IF ~job.ver_exists
         THEN skipped("debug")
         ELSE \/ skipped("error")
              \/ IF lists_comparable(collect_image_paths_in(job))
                   THEN /\ jpc' = "do_it"
                        /\ UNCHANGED <<job, skip_log, start_frame, frames_read,
                                       result_ssim_list, results_folder,
                                       images_written, report, xml_raised,
                                       job_result>>
                   ELSE skipped("warning")
    /\ UNCHANGED <<pvars, evars, dvars, xvars, lvars, nvars, mvars, ivars, qvars, tvars>>

\* render_compare_do_it returns without a report
do_it_returns ==
    /\ jpc' = "do_it_returned"
    /\ UNCHANGED <<job, skip_log, frames_read, result_ssim_list, report,
                   xml_raised, job_result, images_written>>

\* which of the three mkdir calls raises
MkdirFaults == {"none", RESULTS_FOLDER, DIFF_IMAGES_FOLDER, ALPHA_IMAGES_FOLDER}

\* the directories made before the mkdir call that raises
made_before(failing) ==
    IF failing = RESULTS_FOLDER THEN {}
    ELSE IF failing = DIFF_IMAGES_FOLDER THEN {RESULTS_FOLDER}
    ELSE IF failing = ALPHA_IMAGES_FOLDER THEN {RESULTS_FOLDER, DIFF_IMAGES_FOLDER}
    ELSE {RESULTS_FOLDER, DIFF_IMAGES_FOLDER, ALPHA_IMAGES_FOLDER}

\* render_compare_do_it before its loop: the checks of the lists, the start
\* frame parsed from the first original image's name, the three directories
do_it_prepare ==
    /\ jpc = "do_it"
    /\ LET c == collect_image_paths_in(job)
           first_image_name == job.first_image_name
           stem == split(first_image_name, ".")[1]
       IN IF c.image_orig_list = 0 \/ c.image_tester_list = 0
               \/ c.image_orig_list # c.image_tester_list
               \/ ~int_parses(stem)
            THEN do_it_returns /\ UNCHANGED <<start_frame, results_folder>>
            ELSE /\ start_frame' = <<int_value(stem)>>
                 /\ \E failing \in MkdirFaults :
                       /\ results_folder' = results_folder \cup made_before(failing)
                       /\ IF failing = "none"
                            THEN /\ jpc' = "loop"
                                 /\ UNCHANGED <<job, skip_log, frames_read,
                                                result_ssim_list, report,
                                                xml_raised, job_result,
                                                images_written>>
                            ELSE do_it_returns
    /\ UNCHANGED <<pvars, evars, dvars, xvars, lvars, nvars, mvars, ivars, qvars, tvars>>

\* what cv2.imread returns: None, or an array with one of two shapes
ImreadResults == {"None", "100x100", "64x64"}

shape(frame) == frame

\* A loop body that compares whatever imread returned
pair_compared_always(source_frame, tested_frame) ==
    shape(source_frame) = shape(tested_frame)

\* the two tests of the loop body that let a pair through to the metrics
pair_compared(source_frame, tested_frame) ==
    /\ ~(source_frame = "None" \/ tested_frame = "None")
    /\ ~(shape(source_frame) # shape(tested_frame))

\* One iteration of the loop of render_compare_do_it, at i = Len(frames_read):
\* a pair that cannot be read or differs in shape is skipped; otherwise the
\* SSIM (0.0 when ssim() raises) is appended, and the difference and alpha
\* images are written under the frame number, unless imwrite fails
compare_pair ==
    /\ jpc = "loop"
    /\ Len(frames_read) < collect_image_paths_in(job).image_orig_list
    /\ LET i == Len(frames_read)
           counter == zfill(str_of(start_frame[1] + i), 4)
       IN \E source_frame \in ImreadResults, tested_frame \in ImreadResults :
            /\ frames_read' = Append(frames_read,
                                      <<source_frame, tested_frame>> \o zip_at(job, i))
            /\ IF pair_compared(source_frame, tested_frame)
                 THEN \E ssim_result \in {"ssim", "0.0"},
                         written \in SUBSET {DIFF_IMAGES_FOLDER, ALPHA_IMAGES_FOLDER} :
                        /\ result_ssim_list' =
                              Append(result_ssim_list,
                                     [pair |-> i, value |-> ssim_result])
                        /\ images_written' =
                              images_written \cup {<<d, counter>> : d \in written}
                 ELSE UNCHANGED <<result_ssim_list, images_written>>
    /\ UNCHANGED <<job, jpc, skip_log, start_frame, results_folder, report,
                   xml_raised, job_result>>
    /\ UNCHANGED <<pvars, evars, dvars, xvars, lvars, nvars, mvars, ivars, qvars, tvars>>

\* how writing the document ends: written, open() raises, or f.write raises
\* after open() has truncated the file
IoOutcomes == {"ok", "open_fails", "write_fails"}

\* compareResult.xml when it is not a document this run wrote: "absent",
\* "old" (the document of an earlier run) or "truncated" (opened for writing
\* and left incomplete)
no_document(state) ==
    [state |-> state, startFrame |-> <<>>, endFrame |-> <<>>, frames |-> <<>>]

\* the document: the startFrame and endFrame fields and the frame entries
document(ssim_list, start_frame_str, end_frame_str) ==
    [state |-> "written",
     startFrame |-> start_frame_str,
     endFrame |-> end_frame_str,
     frames |-> [x \in 1 .. Len(ssim_list) |->
                   [frameIndex |-> (x - 1) + int_value(start_frame_str),
                    value |-> ssim_list[x]]]]

\* A writer that does not refuse the empty SSIM list
write_to_xml_file_unchecked(file, compare_type_list, start_frame_str, end_frame_str, io) ==
    IF Len(compare_type_list) < 2
      THEN [raised |-> "ValueError", file |-> file]
    ELSE IF ~int_parses(start_frame_str) \/ io = "open_fails"
      THEN [raised |-> "IOError", file |-> file]
    ELSE IF io = "write_fails"
      THEN [raised |-> "IOError", file |-> no_document("truncated")]
    ELSE [raised |-> "none",
          file |-> document(compare_type_list[2], start_frame_str, end_frame_str)]

\* write_to_xml_file: what it raises and what compareResult.xml is afterwards
write_to_xml_file(file, compare_type_list, start_frame_str, end_frame_str, io) ==
    IF Len(compare_type_list) < 2
      THEN [raised |-> "ValueError", file |-> file]
    ELSE IF compare_type_list[2] = <<>>
      THEN [raised |-> "ValueError", file |-> file]
    ELSE IF ~int_parses(start_frame_str) \/ io = "open_fails"
      THEN [raised |-> "IOError", file |-> file]
    ELSE IF io = "write_fails"
      THEN [raised |-> "IOError", file |-> no_document("truncated")]
    ELSE [raised |-> "none",
          file |-> document(compare_type_list[2], start_frame_str, end_frame_str)]

\* "if not result_ssim_list: return" after the loop
report_skipped(ssim_list) == ssim_list = <<>>

\* render_compare_do_it after its loop: no report on an empty SSIM list,
\* otherwise write_to_xml_file, whose exception is logged and not raised
do_it_report ==
    /\ jpc = "loop"
    /\ Len(frames_read) = collect_image_paths_in(job).image_orig_list
    /\ IF report_skipped(result_ssim_list)
         THEN UNCHANGED <<report, xml_raised>>
         ELSE \E io \in IoOutcomes :
                LET result_mse_list == [x \in 1 .. Len(result_ssim_list) |-> "mse"]
                    compare_type_list == <<result_mse_list, result_ssim_list>>
                    start_frame_str == zfill(str_of(start_frame[1]), 4)
                    end_frame == Len(frames_read) + start_frame[1] - 1
                    end_frame_str == zfill(str_of(end_frame), 4)
                    written == write_to_xml_file(report, compare_type_list,
                                                 start_frame_str, end_frame_str, io)
                IN /\ report' = written.file
                   /\ xml_raised' = written.raised
    /\ jpc' = "do_it_returned"
    /\ UNCHANGED <<job, skip_log, start_frame, frames_read, result_ssim_list,
                   results_folder, images_written, job_result>>
    /\ UNCHANGED <<pvars, evars, dvars, xvars, lvars, nvars, mvars, ivars, qvars, tvars>>

\* _compare_single_folder after render_compare_do_it returned: "return True",
\* whatever the run left as its report
after_render_compare_do_it(rep) == "True"

single_folder_returns ==
    /\ jpc = "do_it_returned"
    /\ job_result' = after_render_compare_do_it(report)
    /\ jpc' = "returned"
    /\ UNCHANGED <<job, skip_log, start_frame, frames_read, result_ssim_list,
                   results_folder, images_written, report, xml_raised>>
    /\ UNCHANGED <<pvars, evars, dvars, xvars, lvars, nvars, mvars, ivars, qvars, tvars>>

\* the body of the as_completed loop of _process_from_ini for this job
folder_counted ==
    /\ jpc = "returned"
    /\ processed_folders' = CountFolder(job_result, processed_folders)
    /\ jpc' = "counted"
    /\ UNCHANGED <<pc, ini, rvars, fvars, csubmitted, cpc, compare_lock, cfut>>
    /\ UNCHANGED <<job, skip_log, start_frame, frames_read, result_ssim_list,
                   results_folder, images_written, report, xml_raised, job_result>>
    /\ UNCHANGED <<evars, dvars, xvars, lvars, nvars, mvars, ivars, qvars, tvars>>

\* a call of write_to_xml_file on its own, with a results folder that exists
call_write_to_xml_file ==
    /\ jpc = "write_call"
    /\ \E io \in IoOutcomes :
         LET written == write_to_xml_file(report, job.arguments.compare_type_list,
                                          job.arguments.start_frame,
                                          job.arguments.start_frame, io)
         IN /\ report' = written.file
            /\ xml_raised' = written.raised
    /\ jpc' = "write_returned"
    /\ UNCHANGED <<job, skip_log, start_frame, frames_read, result_ssim_list,
                   results_folder, images_written, job_result>>
    /\ UNCHANGED <<pvars, evars, dvars, xvars, lvars, nvars, mvars, ivars, qvars, tvars>>

\* compareResult.xml before the job
report_before(j) ==
    IF j.results_before = "old" THEN no_document("old") ELSE no_document("absent")

\* <frame>/<freedview_ver>/results before the job
results_folder_before(j) ==
    IF j.results_before = "absent" THEN {} ELSE {RESULTS_FOLDER}

InitCompare ==
    /\ PipelineIdle
    /\ LocalizerIdle
    /\ CreateIdle
    /\ job \in JobInputs
    /\ jpc = IF job.call = "write_to_xml_file" THEN "write_call" ELSE "call"
    /\ skip_log = "none"
    /\ start_frame = None
    /\ frames_read = <<>>
    /\ result_ssim_list = <<>>
    /\ results_folder = results_folder_before(job)
    /\ images_written = {}
    /\ report = report_before(job)
    /\ xml_raised = "none"
    /\ job_result = "none"
    /\ DuplicateIdle
    /\ RenameIdle
    /\ MseIdle
    /\ IniIdle
    /\ PhasesIdle
    /\ PathsIdle

NextCompare ==
    \/ compare_single_folder
    \/ do_it_prepare
    \/ compare_pair
    \/ do_it_report
    \/ single_folder_returns
    \/ folder_counted
    \/ call_write_to_xml_file

SpecCompare == InitCompare /\ [][NextCompare]_vars

(* ------------------------------------------------------------------------ *)
(* JsonLocalizer.duplicate_and_modify_json_files (src/src/jsonLocalizer.py) *)
(* ------------------------------------------------------------------------ *)

\* entries of the catalog get_json_files returned
MaxEntries == 2

\* the descriptor and the file written next to it
FileNames == {"standAloneRender.json", "testMe.json"}

\* A file's text is a sequence of pieces; a piece is the old event path
\* (<first component>/Events/<event name>/<set name>), the new one
\* (<event path>/<set name>) or any other text.
Texts ==
    {<<"text", "old_event_path", "text">>,
     <<"old_event_path", "old_event_path">>,
     <<"text">>}

\* a path of the file system: absent, a file that open() cannot read, or a
\* readable file with its text
absent == [state |-> "absent", data |-> <<>>]

Descriptors ==
    {absent} \cup [state : {"unreadable", "readable"}, data : Texts]

\* testMe.json before the call: absent or left by an earlier run
EarlierCopies ==
    {absent, [state |-> "readable", data |-> <<"text", "new_event_path", "text">>]}

\* The frames of the catalog, each with its two files and with whether
\* opening testMe.json for writing succeeds. A descriptor that was there when
\* get_json_files listed it can be gone or unreadable by now.
Catalogs ==
    UNION {[1 .. n -> [writable : BOOLEAN,
                       descriptor : Descriptors,
                       earlier_copy : EarlierCopies]] : n \in 0 .. MaxEntries}

\* str.replace(old, new) on a text
replace(data, old, new) ==
    [k \in DOMAIN data |-> IF data[k] = old THEN new ELSE data[k]]

\* the path of the descriptor of frame i, <frame>/Render/Json/standAloneRender.json
json_file_path(i) == <<i, "standAloneRender.json">>

\* A target that is the descriptor itself
json_file_dup_in_place(i) == <<i, "standAloneRender.json">>

\* os.path.join(json_folder_list[i], 'testMe.json')
json_file_dup(i) == <<i, "testMe.json">>

\* A loop that ends at the first frame it cannot process
continue_stops(i, total_files) == total_files + 1

\* "continue": the loop goes on with the next index
continue_loop(i, total_files) == i + 1

\* how open(json_file_dup, 'w') and the write end on a folder that cannot be
\* written: open() raises, or write() raises after open() truncated the file
WriteFailures == {"open_fails", "write_fails"}

\* One iteration of the loop: a missing descriptor is skipped with a warning;
\* a descriptor that cannot be read, or a copy that cannot be written, is
\* logged as an error; otherwise the text with the old event path replaced
\* is written to testMe.json
duplicate_one ==
    /\ lpc = "loop"
    /\ loop_i <= Len(json_file_list)
    /\ LET i == loop_i
           total_files == Len(json_file_list)
           source == files[json_file_list[i]]
           modified_data == replace(source.data, "old_event_path", "new_event_path")
       IN IF source.state # "readable"
            THEN /\ loop_i' = continue_loop(i, total_files)
                 /\ UNCHANGED files
            ELSE IF json_folders[i] = "writable"
              THEN /\ files' = [files EXCEPT ![json_file_dup(i)] =
                                  [state |-> "readable", data |-> modified_data]]
                   /\ loop_i' = i + 1
              ELSE /\ \E failure \in WriteFailures :
                        IF failure = "open_fails"
                          THEN UNCHANGED files
                          ELSE files' = [files EXCEPT ![json_file_dup(i)] =
                                            [state |-> "readable", data |-> <<>>]]
                   /\ loop_i' = continue_loop(i, total_files)
    /\ UNCHANGED <<json_file_list, json_folders, files_before, lpc>>
    /\ UNCHANGED <<pvars, evars, dvars, xvars, jvars, nvars, mvars, ivars, qvars, tvars>>

\* the loop is over: the function logs and returns
duplicate_return ==
    /\ lpc = "loop"
    /\ loop_i > Len(json_file_list)
    /\ lpc' = "returned"
    /\ UNCHANGED <<json_file_list, json_folders, files, files_before, loop_i>>
    /\ UNCHANGED <<pvars, evars, dvars, xvars, jvars, nvars, mvars, ivars, qvars, tvars>>

\* the files of a catalog
files_of(catalog) ==
    [path \in (1 .. Len(catalog)) \X FileNames |->
        IF path[2] = "standAloneRender.json"
          THEN catalog[path[1]].descriptor
          ELSE catalog[path[1]].earlier_copy]

InitDuplicate ==
    /\ PipelineIdle
    /\ LocalizerIdle
    /\ CreateIdle
    /\ JobIdle
    /\ \E catalog \in Catalogs :
          /\ json_file_list = [i \in 1 .. Len(catalog) |-> json_file_path(i)]
          /\ json_folders = [i \in 1 .. Len(catalog) |->
                                IF catalog[i].writable THEN "writable"
                                                       ELSE "read_only"]
          /\ files = files_of(catalog)
    /\ files_before = files
    /\ lpc = "loop"
    /\ loop_i = 1
    /\ RenameIdle
    /\ MseIdle
    /\ IniIdle
    /\ PhasesIdle
    /\ PathsIdle

NextDuplicate ==
    \/ duplicate_one
    \/ duplicate_return

SpecDuplicate == InitDuplicate /\ [][NextDuplicate]_vars

\* C17: at every moment of the localization of a catalog, every
\* standAloneRender.json is as it was when the function was called, and the
\* only files that differ from then are testMe.json files.
C17_SourceDescriptorUntouched ==
    \A path \in DOMAIN files :
        files[path] # files_before[path] => path[2] = "testMe.json"

\* a testMe.json has been written from a descriptor that holds the old path,
\* and differs from that descriptor
C17_Witness ==
    /\ lpc = "returned"
    /\ \E i \in 1 .. Len(json_file_list) :
          /\ files[<<i, "standAloneRender.json">>].state = "readable"
          /\ files[<<i, "testMe.json">>] # files_before[<<i, "testMe.json">>]
          /\ files[<<i, "testMe.json">>].data
                # files[<<i, "standAloneRender.json">>].data

\* a frame whose descriptor can be read and whose folder can be written
Processable(i) ==
    /\ files_before[<<i, "standAloneRender.json">>].state = "readable"
    /\ json_folders[i] = "writable"

\* the text localization is to give: each old event path replaced
Localized(data) ==
    [k \in DOMAIN data |->
        IF data[k] = "old_event_path" THEN "new_event_path" ELSE data[k]]

\* C18: when the function has returned, every frame of the catalog with a
\* readable descriptor and a writable folder has its testMe.json, whatever
\* happened on the other frames; a frame whose descriptor is missing or
\* unreadable has the testMe.json it had before.
C18_FailuresDoNotStopOthers ==
    lpc = "returned" =>
        \A i \in 1 .. Len(json_file_list) :
            /\ Processable(i) =>
                  files[<<i, "testMe.json">>] =
                     [state |-> "readable",
                      data |-> Localized(files_before[<<i, "standAloneRender.json">>].data)]
            /\ files_before[<<i, "standAloneRender.json">>].state # "readable" =>
                  files[<<i, "testMe.json">>] = files_before[<<i, "testMe.json">>]

\* the first frame's descriptor is missing and the second frame was localized
C18_Witness ==
    /\ lpc = "returned"
    /\ Len(json_file_list) = 2
    /\ files_before[<<1, "standAloneRender.json">>].state = "absent"
    /\ Processable(2)
    /\ files_before[<<2, "testMe.json">>].state = "absent"
    /\ files[<<2, "testMe.json">>].state = "readable"

(* ------------------------------------------------------------------------ *)
(* The renaming loop of FreeDViewRunner.run_freedview                       *)
(* (src/src/freeDViewRunner.py), entered when the renderer exited with 0    *)
(* ------------------------------------------------------------------------ *)

\* entries of the output directory
MaxFiles == 2

\* output paths: one without a digit, and one below a frame folder and a
\* version folder, as do_it builds them
OutputDirs ==
    {<<"o", "u", "t", "/", "v">>,
     <<"F", "4", "/", "v", "1">>}

\* names the renderer can leave in the output directory
EntryNames ==
    {<<"s", "_", "F", "0", "7", ".", "j", "p", "g">>,
     <<"0", "9", ".", "j", "p", "g">>,
     <<"0", "7", ".", "p", "n", "g">>,
     <<"b", "2", ".", "p", "n", "g">>,
     <<"a", ".", "l", "o", "g">>,
     <<"c", ".", "t", "x", "t">>,
     <<"d", "5">>}

\* d5 is a directory, the other entries are files
kind_of(name) == IF name = <<"d", "5">> THEN "dir" ELSE "file"

\* re.findall(r'\d+', str)[-1], or the empty string when nothing matches
last_digit_run(str) ==
    LET at == {i \in 1 .. Len(str) : str[i] \in digits}
    IN IF at = {} THEN <<>>
       ELSE LET e == CHOOSE i \in at : \A j \in at : j <= i
                b == CHOOSE i \in 1 .. e :
                        /\ \A j \in i .. e : str[j] \in digits
                        /\ i = 1 \/ str[i - 1] \notin digits
            IN SubSeq(str, b, e)

\* str(image_file): the output path, a separator and the entry's name
image_file_path(dir, name) == dir \o <<"/">> \o name

\* what shutil/os.rename onto an existing file does: it replaces the file
\* (POSIX) or raises FileExistsError (Windows)
RenameOntoFile == {"replaces", "raises"}

\* One iteration of the loop on an entry of the listing. A directory is passed
\* over. The digits are searched in the whole path; an entry whose path has
\* some is renamed to <digits>.jpg unless that is its path already. An
\* exception of rename ends the loop (the except clause logs a warning).
rename_one(name) ==
    /\ npc = "loop"
    /\ name \in listing
    /\ LET frame_numbers == last_digit_run(image_file_path(rename_dir, name))
           new_name == frame_numbers \o <<".", "j", "p", "g">>
       IN IF dir_files[name].kind # "file" \/ frame_numbers = <<>>
               \/ image_file_path(rename_dir, name)
                     = image_file_path(rename_dir, new_name)
            THEN /\ listing' = listing \ {name}
                 /\ UNCHANGED dir_files
            ELSE IF new_name \notin DOMAIN dir_files
              THEN /\ listing' = listing \ {name}
                   /\ dir_files' =
                        [n \in (DOMAIN dir_files \ {name}) \cup {new_name} |->
                            IF n = new_name THEN dir_files[name] ELSE dir_files[n]]
            ELSE IF dir_files[new_name].kind = "dir"
              THEN /\ listing' = {}
                   /\ UNCHANGED dir_files
            ELSE \E outcome \in RenameOntoFile :
                   IF outcome = "raises"
                     THEN /\ listing' = {}
                          /\ UNCHANGED dir_files
                     ELSE /\ listing' = listing \ {name}
                          /\ dir_files' =
                               [n \in DOMAIN dir_files \ {name} |->
                                   IF n = new_name THEN dir_files[name]
                                                   ELSE dir_files[n]]
    /\ UNCHANGED <<rename_dir, npc>>
    /\ UNCHANGED <<pvars, evars, dvars, xvars, jvars, lvars, mvars, ivars, qvars, tvars>>

\* the loop is over and run_freedview returns
rename_done ==
    /\ npc = "loop"
    /\ listing = {}
    /\ npc' = "returned"
    /\ UNCHANGED <<rename_dir, dir_files, listing>>
    /\ UNCHANGED <<pvars, evars, dvars, xvars, jvars, lvars, mvars, ivars, qvars, tvars>>

InitRename ==
    /\ PipelineIdle
    /\ LocalizerIdle
    /\ CreateIdle
    /\ JobIdle
    /\ DuplicateIdle
    /\ rename_dir \in OutputDirs
    /\ \E names \in SUBSET EntryNames :
          /\ Cardinality(names) <= MaxFiles
          /\ dir_files = [n \in names |-> [kind |-> kind_of(n), origin |-> n]]
          /\ listing = names
    /\ npc = "loop"
    /\ MseIdle
    /\ IniIdle
    /\ PhasesIdle
    /\ PathsIdle

NextRename ==
    \/ \E name \in EntryNames : rename_one(name)
    \/ rename_done

SpecRename == InitRename /\ [][NextRename]_vars

\* the entries the renderer left as files
ProducedFiles == {n \in EntryNames : kind_of(n) = "file"}

\* the last run of digits of each name the renderer can leave
DigitsInName(name) ==
    CASE name = <<"s", "_", "F", "0", "7", ".", "j", "p", "g">> -> <<"0", "7">>
      [] name = <<"0", "9", ".", "j", "p", "g">> -> <<"0", "9">>
      [] name = <<"0", "7", ".", "p", "n", "g">> -> <<"0", "7">>
      [] name = <<"b", "2", ".", "p", "n", "g">> -> <<"2">>
      [] OTHER -> <<>>

\* the name the file is to have after the loop: <digits>.jpg from its own
\* name, or its own name when that has no digit
TargetName(name) ==
    IF DigitsInName(name) = <<>> THEN name
    ELSE DigitsInName(name) \o <<".", "j", "p", "g">>

\* C19: when the renaming loop has returned, every file the renderer left is
\* in the output directory under <d>.jpg, d being the last run of digits of
\* the file's own name (a file already so named is where it was), whatever
\* the output path is.
C19_RenamedByOwnName ==
    npc = "returned" =>
        \A f \in ProducedFiles :
            (\E n \in DOMAIN dir_files : dir_files[n].origin = f) =>
                /\ TargetName(f) \in DOMAIN dir_files
                /\ dir_files[TargetName(f)].origin = f

\* the files of a directory
FilesIn(d) == {n \in DOMAIN d : d[n].kind = "file"}

\* C30: no step of the renaming loop changes the number of files in the
\* output directory: no rename replaces a file that is there, whether one the
\* renderer gave that name or one renamed to it earlier in the loop.
C30_NoFileLost ==
    [][Cardinality(FilesIn(dir_files')) = Cardinality(FilesIn(dir_files))]_vars

\* C30 restricted to an output path without a digit, where every new name
\* comes from the file's own name: two names with the same last run of digits
\* collide there as well
C30_NoFileLostByOwnName ==
    [][rename_dir = <<"o", "u", "t", "/", "v">> =>
           Cardinality(FilesIn(dir_files')) = Cardinality(FilesIn(dir_files))]_vars

(* ------------------------------------------------------------------------ *)
(* mean_squared_error (src/src/renderCompare.py)                            *)
(* ------------------------------------------------------------------------ *)

\* pixels of an image
MaxPixels == 2

\* intensities of a pixel (uint8)
Intensities == {0, 16, 128, 130}

\* shapes (height, width) of a grayscale array
Shapes ==
    {sh \in (1 .. MaxPixels) \X (1 .. MaxPixels) : sh[1] * sh[2] <= MaxPixels}

\* the positions of an array of a shape
positions(sh) == (1 .. sh[1]) \X (1 .. sh[2])

\* grayscale images
Images ==
    UNION {[shape : {sh}, px : [positions(sh) -> Intensities]] : sh \in Shapes}

\* A difference taken and squared in uint8, without the conversion
squared_difference_uint8(x, y) == (((x - y) % 256) * ((x - y) % 256)) % 256

\* (image_a.astype("float") - image_b.astype("float")) ** 2 on one pixel:
\* after the conversion the difference and its square are those of the numbers
squared_difference(x, y) == (x - y) * (x - y)

RECURSIVE sum_over(_, _, _)
\* np.sum of the squared differences over a set of positions
sum_over(P, a, b) ==
    IF P = {} THEN 0
    ELSE LET p == CHOOSE p \in P : TRUE
         IN squared_difference(a.px[p], b.px[p]) + sum_over(P \ {p}, a, b)

\* A function without the test of the shapes, computing over the positions
\* the two arrays share
mean_squared_error_truncating(a, b) ==
    LET common == positions(a.shape) \cap positions(b.shape)
    IN [raised |-> "none",
        err |-> sum_over(common, a, b),
        pixels |-> a.shape[1] * a.shape[2]]

\* mean_squared_error(a, b): ValueError on different shapes, otherwise the
\* quotient err / pixels, kept as its two terms
mean_squared_error(a, b) ==
    IF a.shape # b.shape
      THEN [raised |-> "ValueError", err |-> 0, pixels |-> 1]
      ELSE [raised |-> "none",
            err |-> sum_over(positions(a.shape), a, b),
            pixels |-> a.shape[1] * a.shape[2]]

\* the function is called on the two images in both orders, and on the first
\* image with itself
call_mean_squared_error ==
    /\ mse = <<>>
    /\ mse' = [ab |-> mean_squared_error(image_a, image_b),
               ba |-> mean_squared_error(image_b, image_a),
               aa |-> mean_squared_error(image_a, image_a)]
    /\ UNCHANGED <<image_a, image_b>>
    /\ UNCHANGED <<pvars, evars, dvars, xvars, jvars, lvars, nvars, ivars, qvars, tvars>>

InitMse ==
    /\ PipelineIdle
    /\ LocalizerIdle
    /\ CreateIdle
    /\ JobIdle
    /\ DuplicateIdle
    /\ RenameIdle
    /\ image_a \in Images
    /\ image_b \in Images
    /\ mse = <<>>
    /\ IniIdle
    /\ PhasesIdle
    /\ PathsIdle

NextMse == call_mean_squared_error

SpecMse == InitMse /\ [][NextMse]_vars

\* every pixel of the image has the intensity v
Uniform(image, v) == \A p \in positions(image.shape) : image.px[p] = v

\* C20: for two images of the same shape, MSE(A, A) = 0, MSE(A, B) > 0 when
\* A and B differ in a pixel, MSE(A, B) = MSE(B, A), and MSE is 4 for a
\* uniform image of intensity 128 against one of intensity 130.
C20_MseProperties ==
    (mse # <<>> /\ image_a.shape = image_b.shape) =>
        /\ mse.ab.raised = "none" /\ mse.ba.raised = "none" /\ mse.aa.raised = "none"
        /\ mse.aa.err = 0
        /\ image_a # image_b => mse.ab.err > 0 /\ mse.ab.pixels > 0
        /\ mse.ab.err * mse.ba.pixels = mse.ba.err * mse.ab.pixels
        /\ Uniform(image_a, 128) /\ Uniform(image_b, 130) =>
              mse.ab.err = 4 * mse.ab.pixels

\* the function has been called on a uniform 128 image and a uniform 130 one
\* of two pixels
C20_Witness ==
    /\ mse # <<>>
    /\ image_a.shape = <<1, 2>>
    /\ image_b.shape = <<1, 2>>
    /\ Uniform(image_a, 128)
    /\ Uniform(image_b, 130)
    /\ mse.ab.err = 8

\* C21: called on two images of different shapes, in either order,
\* mean_squared_error raises the dimension-mismatch ValueError and gives no
\* value.
C21_MismatchRaises ==
    (mse # <<>> /\ image_a.shape # image_b.shape) =>
        /\ mse.ab.raised = "ValueError"
        /\ mse.ba.raised = "ValueError"

\* the function has been called on a 1x2 image and a 1x1 image, which numpy
\* would broadcast, and has raised
C21_Witness ==
    /\ mse # <<>>
    /\ image_a.shape = <<1, 2>>
    /\ image_b.shape = <<1, 1>>
    /\ mse.ab.raised = "ValueError"

(* ------------------------------------------------------------------------ *)
(* getDataINI (src/src/getDataIni.py)                                       *)
(* ------------------------------------------------------------------------ *)

\* sections of an INI file besides DEFAULT
MaxSections == 2

ERROR_VALUE == "error"

\* What a section holds for the key: nothing, a path that exists, a path that
\* does not, or a value whose interpolation fails (a lone '%', as in "50%").
Options == {"absent", "/existing/path", "/missing/path", "50%"}

\* The file at file_path: none (or an empty file_path), or a file with its
\* DEFAULT section, its other sections in order, and whether ConfigParser
\* reads it (it does not read a file without a section header, with a section
\* twice, or that cannot be opened or decoded).
IniFiles ==
    {[exists |-> FALSE, parses |-> FALSE, default |-> "absent", sections |-> <<>>]}
    \cup
    UNION {[exists : {TRUE}, parses : BOOLEAN, default : Options,
            sections : [1 .. n -> Options]] : n \in 0 .. MaxSections}

\* config.has_option(section, tag_name): the option of the section, or of
\* DEFAULT
has_option(config, k) ==
    config.sections[k] # "absent" \/ config.default # "absent"

\* the value config.get looks up, before interpolation
option_value(config, k) ==
    IF config.sections[k] # "absent" THEN config.sections[k] ELSE config.default

\* config.get raises InterpolationSyntaxError on the value
get_raises(value) == value = "50%"

RECURSIVE values_upto(_, _)
\* the loop over config.sections(): the values appended for sections 1 .. k
values_upto(config, k) ==
    IF k = 0 THEN <<>>
    ELSE IF has_option(config, k) /\ ~get_raises(option_value(config, k))
      THEN Append(values_upto(config, k - 1), option_value(config, k))
      ELSE values_upto(config, k - 1)

\* os.path.exists(item)
path_exists(item) == item = "/existing/path"

\* A reader that takes whatever text the option holds
getDataINI_uninterpolated(f, check) ==
    IF ~f.exists \/ ~f.parses THEN <<ERROR_VALUE>>
    ELSE LET raw == [k \in 1 .. Len(f.sections) |-> option_value(f, k)]
             found == SelectSeq(raw, LAMBDA v : v # "absent")
             values == IF found = <<>> /\ f.default # "absent"
                         THEN <<f.default>> ELSE found
         IN IF check /\ \E x \in 1 .. Len(values) : ~path_exists(values[x])
              THEN <<ERROR_VALUE>>
            ELSE IF values = <<>> THEN <<ERROR_VALUE>>
            ELSE values

\* _get_data_ini_impl: the list returned
getDataINI(f, check) ==
    IF ~f.exists \/ ~f.parses THEN <<ERROR_VALUE>>
    ELSE LET found == values_upto(f, Len(f.sections))
             values == IF found = <<>> /\ f.default # "absent"
                                      /\ ~get_raises(f.default)
                         THEN <<f.default>> ELSE found
         IN IF check /\ \E x \in 1 .. Len(values) : ~path_exists(values[x])
              THEN <<ERROR_VALUE>>
            ELSE IF values = <<>> THEN <<ERROR_VALUE>>
            ELSE values

call_getDataINI ==
    /\ data_list = <<>>
    /\ data_list' = getDataINI(ini_file, file_check)
    /\ UNCHANGED <<ini_file, file_check>>
    /\ UNCHANGED <<pvars, evars, dvars, xvars, jvars, lvars, nvars, mvars, qvars, tvars>>

InitIni ==
    /\ PipelineIdle
    /\ LocalizerIdle
    /\ CreateIdle
    /\ JobIdle
    /\ DuplicateIdle
    /\ RenameIdle
    /\ MseIdle
    /\ PhasesIdle
    /\ PathsIdle
    /\ ini_file \in IniFiles
    /\ file_check \in BOOLEAN
    /\ data_list = <<>>

NextIni == call_getDataINI

SpecIni == InitIni /\ [][NextIni]_vars

\* the sections, in file order, that define the key themselves
Definers == {k \in 1 .. Len(ini_file.sections) : ini_file.sections[k] # "absent"}

\* the sections, in file order, in which the key is visible (their own
\* option or DEFAULT's) with a value that can be read
Readable ==
    {k \in 1 .. Len(ini_file.sections) :
        /\ ini_file.sections[k] # "absent" \/ ini_file.default # "absent"
        /\ (IF ini_file.sections[k] # "absent" THEN ini_file.sections[k]
                                               ELSE ini_file.default) # "50%"}

\* the value section k gives for the key
ValueIn(k) ==
    IF ini_file.sections[k] # "absent" THEN ini_file.sections[k]
                                       ELSE ini_file.default

MaxCatalog == 2

\* A path is a sequence of pieces: names, "testSets", "_results", "_VS_" and
\* the separators "/" and "\\". No name holds a separator of either platform.
TEST_SETS_DIR == <<"testSets">>

TEST_SETS_RESULTS_DIR == <<"testSets", "_results">>

\* os.sep: "/" on POSIX, "\\" on Windows
Separators == {"/", "\\"}

\* setTestPath as pathlib renders it
BasePaths(sep) == {<<"D">>, <<"D", sep, "testSets">>}

\* Where get_json_files finds an event below the base path: the directory
\* itself, or one directory down (a sport type folder); at most one event per
\* directory of the base path.
EventPlaces(sep) == {<<"E1">>, <<"testSets", sep, "E2">>}

SetNames == {"S1", "testSets"}

TaskFrameNames == {"F1", "F2"}

TaskFrameFolders(sep) ==
    [event : EventPlaces(sep), set : SetNames, frame : TaskFrameNames]

\* the sequences without repetition of at most n elements of S
Listings(S, n) ==
    UNION {{l \in [1 .. m -> S] : \A i, j \in 1 .. m : i # j => l[i] # l[j]} :
              m \in 0 .. n}

\* the original and the tester name freedviewVer splits into
VersionPairs == {<<"v1", "v2">>, <<"v1", "v1">>}

\* the directories below <freedviewPath>/<freedviewVer>
VersionDirs == {"v1", "v2", "v3"}

\* os.path.join(a, b) for a relative b
join(a, b, sep) == a \o <<sep>> \o b

\* str(frame_item): base path, event, set and frame joined by os.sep
frame_path(base, f, sep) ==
    join(join(join(base, f.event, sep), <<f.set>>, sep), <<f.frame>>, sep)

RECURSIVE str_replace(_, _, _)
\* str.replace(old, new) for a piece old and a sequence of pieces new
str_replace(str, old, new) ==
    IF str = <<>> THEN <<>>
    ELSE (IF Head(str) = old THEN new ELSE <<Head(str)>>)
             \o str_replace(Tail(str), old, new)

\* _get_freedview_versions: of the directories iterdir yields, in its order,
\* those named as the original version or as the tester version
version_names(dirs, orig, tester) ==
    SelectSeq(dirs, LAMBDA d : d = orig \/ d = tester)

\* An output path without the version name
output_path_of_frame_only(task, sep) ==
    str_replace(
        join(str_replace(task.folder_frame, TEST_SETS_DIR[1], TEST_SETS_RESULTS_DIR),
             task.freedview_ver, sep),
        "\\", <<"/">>)

\* output_path of _render_single_task: folder_frame with testSets replaced,
\* joined with freedview_ver and freedview_ver_name, backslashes replaced
output_path_of(task, sep) ==
    str_replace(
        join(join(str_replace(task.folder_frame, TEST_SETS_DIR[1], TEST_SETS_RESULTS_DIR),
                  task.freedview_ver, sep),
             <<task.freedview_ver_name>>, sep),
        "\\", <<"/">>)

\* what a run of do_it has in hand when it builds its task list
Layouts ==
    UNION {[sep : {sep},
            base : BasePaths(sep),
            frames : Listings(TaskFrameFolders(sep), MaxCatalog),
            pair : VersionPairs,
            dirs : Listings(VersionDirs, 2)] : sep \in Separators}

freedview_ver_name_list == version_names(layout.dirs, layout.pair[1], layout.pair[2])

layout_total_renders == Len(freedview_ver_name_list) * Len(layout.frames)

\* One turn of the nested loops: versions outside, frame folders inside
append_task ==
    /\ tpc = "build"
    /\ Len(render_tasks) < layout_total_renders
    /\ LET i == Len(render_tasks) \div Len(layout.frames)
           x == Len(render_tasks) % Len(layout.frames)
       IN render_tasks' = Append(render_tasks,
              [version_index |-> i,
               freedview_ver_name |-> freedview_ver_name_list[i + 1],
               json_index |-> x,
               folder_frame |-> frame_path(layout.base, layout.frames[x + 1], layout.sep),
               freedview_ver |-> <<layout.pair[1], "_VS_", layout.pair[2]>>])
    /\ output_paths' = Append(output_paths, <<>>)
    /\ UNCHANGED <<layout, tpc>>
    /\ UNCHANGED <<pvars, evars, dvars, xvars, jvars, lvars, nvars, mvars, ivars, qvars>>

\* the list is complete: the tasks are handed to the pool
tasks_built ==
    /\ tpc = "build"
    /\ Len(render_tasks) = layout_total_renders
    /\ tpc' = "run"
    /\ UNCHANGED <<layout, render_tasks, output_paths>>
    /\ UNCHANGED <<pvars, evars, dvars, xvars, jvars, lvars, nvars, mvars, ivars, qvars>>

\* a task, in whatever order the pool runs them, computes its output path
compute_output_path(k) ==
    /\ tpc = "run"
    /\ output_paths[k] = <<>>
    /\ output_paths' = [output_paths EXCEPT ![k] = output_path_of(render_tasks[k], layout.sep)]
    /\ UNCHANGED <<layout, render_tasks, tpc>>
    /\ UNCHANGED <<pvars, evars, dvars, xvars, jvars, lvars, nvars, mvars, ivars, qvars>>

InitPaths ==
    /\ PipelineIdle
    /\ LocalizerIdle
    /\ CreateIdle
    /\ JobIdle
    /\ DuplicateIdle
    /\ RenameIdle
    /\ MseIdle
    /\ IniIdle
    /\ PhasesIdle
    /\ layout \in Layouts
    /\ render_tasks = <<>>
    /\ output_paths = <<>>
    /\ tpc = "build"

NextPaths ==
    \/ append_task
    \/ tasks_built
    \/ \E k \in DOMAIN output_paths : compute_output_path(k)

SpecPaths == InitPaths /\ [][NextPaths]_vars

\* directory a holds directory b: a, a separator, and more
Nested(a, b) ==
    /\ Len(a) < Len(b)
    /\ SubSeq(b, 1, Len(a)) = a
    /\ b[Len(a) + 1] = "/"

VersionFoldersComparable ==
    /\ job.ver_exists
    /\ job.freedview_name_orig \in DOMAIN job.folders
    /\ job.freedview_name_tester \in DOMAIN job.folders
    /\ job.folders[job.freedview_name_orig] = job.folders[job.freedview_name_tester]
    /\ job.folders[job.freedview_name_orig] > 1

\* the job has entered render_compare_do_it
RunsComparison ==
    jpc \in {"do_it", "loop", "do_it_returned"} \/ job_result = "True"

\* the job has returned without entering render_compare_do_it
Skipped == job.call = "_compare_single_folder" /\ job_result = "False"

\* nothing below results/ differs from what was there before the job
NothingWritten ==
    /\ results_folder = results_folder_before(job)
    /\ images_written = {}
    /\ report = report_before(job)

\* C13 as stated: the comparison runs only on two version folders with
\* the same number (> 1) of images, and in every other case the folder is
\* skipped with a warning, no pair is read and nothing is written below
\* results/.
C13_SkippedWithWarning ==
    job.call = "_compare_single_folder" =>
        /\ RunsComparison => VersionFoldersComparable
        /\ (~VersionFoldersComparable /\ job_result # "none") =>
              /\ Skipped
              /\ skip_log = "warning"
              /\ frames_read = <<>>
              /\ NothingWritten

\* C13 as amended: the comparison runs only on two version folders with the
\* same number (> 1) of images; in every other case the folder is skipped,
\* no pair is read and nothing is written below results/, and the record
\* logged is a warning when the version-pair directory was listed, a debug
\* record when that directory does not exist, an error record when listing
\* it raised.
C13_SkippedWithoutComparing ==
    job.call = "_compare_single_folder" =>
        /\ RunsComparison => VersionFoldersComparable
        /\ (~VersionFoldersComparable /\ job_result # "none") =>
              /\ Skipped
              /\ skip_log \in (IF job.ver_exists THEN {"warning", "error"}
                                                 ELSE {"debug"})
              /\ frames_read = <<>>
              /\ NothingWritten
        /\ Skipped /\ skip_log = "warning" =>
              job.ver_exists /\ ~lists_comparable(collect_image_paths_in(job))

\* two and one images: the folder is skipped with the mismatch warning
C13_Witness ==
    /\ Skipped
    /\ skip_log = "warning"
    /\ DOMAIN job.folders = {"v1", "v2"}
    /\ job.freedview_name_tester = "v2"
    /\ job.folders["v1"] = 2
    /\ job.folders["v2"] = 1
    /\ job.results_before = "old"

\* the number written in the name of the first original image
NumberInName(name) ==
    CASE name = <<"0", "0", "0", "5", ".", "j", "p", "g">> -> 5
      [] name = <<"7", ".", "j", "p", "g">> -> 7
      [] name = <<"-", "1", ".", "j", "p", "g">> -> 0 - 1

\* the positions whose two images were read and have the same dimensions
ComparablePositions ==
    {i \in 1 .. Len(frames_read) :
        /\ frames_read[i][1] # "None"
        /\ frames_read[i][2] # "None"
        /\ frames_read[i][1] = frames_read[i][2]}

\* C14: a run that wrote its report has gone through every pair, the report
\* has one frame entry per position whose two images were read with equal
\* dimensions, and the frameIndex values are startFrame, startFrame + 1, ...
\* from the number in the name of the first original image.
C14_ReportFrames ==
    (job.call = "_compare_single_folder" /\ report.state = "written") =>
        /\ Len(frames_read) = job.folders[job.freedview_name_orig]
        /\ Len(report.frames) = Cardinality(ComparablePositions)
        /\ \A x \in 1 .. Len(report.frames) :
              report.frames[x].frameIndex
                  = NumberInName(job.first_image_name) + (x - 1)

\* the first pair could not be read, the second one is in the report
C14_Witness ==
    /\ job.call = "_compare_single_folder"
    /\ report.state = "written"
    /\ Len(frames_read) = 2
    /\ frames_read[1][1] = "None"
    /\ Len(report.frames) = 1
    /\ job.first_image_name = <<"0", "0", "0", "5", ".", "j", "p", "g">>

\* the name under which the difference and alpha images of the pair at
\* position i (from 0) are stored
StoredAs(i) == zfill(str_of(start_frame[1] + i), 4)

\* C26: in a written report, the images of the pair behind each frame entry
\* are stored under the entry's frameIndex padded to four digits, whatever
\* pairs were skipped before it, and endFrame is the frameIndex of the last
\* frame entry.
C26_ImagesUnderFrameIndex ==
    (job.call = "_compare_single_folder" /\ report.state = "written") =>
        /\ \A x \in 1 .. Len(report.frames) :
              StoredAs(result_ssim_list[x].pair)
                  = zfill(str_of(report.frames[x].frameIndex), 4)
        /\ int_value(report.endFrame)
              = report.frames[Len(report.frames)].frameIndex

\* The same when no pair was skipped: every position is in the report
C26_WithoutSkips ==
    (/\ job.call = "_compare_single_folder"
     /\ report.state = "written"
     /\ Len(report.frames) = Len(frames_read)) =>
        /\ \A x \in 1 .. Len(report.frames) :
              StoredAs(result_ssim_list[x].pair)
                  = zfill(str_of(report.frames[x].frameIndex), 4)
        /\ int_value(report.endFrame)
              = report.frames[Len(report.frames)].frameIndex

\* C28: every pair that was compared is made of the original and the tester
\* image of one frame, also when the two lists have the same length and
\* different names.
C28_PairsOfOneFrame ==
    \A i \in ComparablePositions : frames_read[i][3] = frames_read[i][4]

\* The same for folders whose two lists hold the same names
C28_SameNames ==
    job.tester_shift = 0 =>
        \A i \in ComparablePositions : frames_read[i][3] = frames_read[i][4]

\* C15: write_to_xml_file called with an empty SSIM list raises ValueError
\* and leaves compareResult.xml as it was, and a run of render_compare_do_it
\* that ends with an empty SSIM list leaves compareResult.xml as it was
\* (absent, or the document of an earlier run).
C15_NoReportOnEmptyList ==
    /\ (/\ job.call = "write_to_xml_file"
        /\ jpc = "write_returned"
        /\ Len(job.arguments.compare_type_list) = 2
        /\ job.arguments.compare_type_list[2] = <<>>)
       => xml_raised = "ValueError" /\ report = report_before(job)
    /\ (/\ job.call = "_compare_single_folder"
        /\ RunsComparison
        /\ jpc # "loop"
        /\ result_ssim_list = <<>>)
       => report = report_before(job)

\* write_to_xml_file has refused an empty SSIM list while an earlier report
\* was in the folder
C15_Witness ==
    /\ job.call = "write_to_xml_file"
    /\ jpc = "write_returned"
    /\ Len(job.arguments.compare_type_list) = 2
    /\ job.arguments.compare_type_list[2] = <<>>
    /\ xml_raised = "ValueError"
    /\ report.state = "old"

\* C16: a run that went through its pairs and ended with an empty SSIM list,
\* or whose report could not be written, returns as a failure and is not
\* counted among the processed folders.
C16_IncompleteRunNotCounted ==
    (/\ job.call = "_compare_single_folder"
     /\ jpc = "counted"
     /\ frames_read # <<>>
     /\ (result_ssim_list = <<>> \/ xml_raised # "none"))
    => job_result = "False" /\ processed_folders = 0

====
